---- MODULE Spec2Model ----
(***************************************************************************)
(* A model of the core of ozzo-routing: the per-method route store (a      *)
(* radix tree with parameter nodes), the Router that owns the stores and   *)
(* dispatches requests, and the Context that drives a handler pipeline     *)
(* with Next and Abort.                                                    *)
(*                                                                         *)
(* Strings of the program are sequences of one-character strings.  A route *)
(* pattern is a sequence of tokens: a token is a literal character or a    *)
(* whole parameter marker such as <id> or <n:\d+>.                         *)
(***************************************************************************)
EXTENDS Integers, Sequences, FiniteSets, TLC

VARIABLES
    stores,            \* Router.stores: method -> store (NoStore when absent)
    maxParams,         \* Router.maxParams
    routes,            \* Router.routes, as the list of [method, path, handlers]
    handlers,          \* Router.RouteGroup.handlers (the Use-registered handlers)
    notFound,          \* Router.notFound
    notFoundHandlers,  \* Router.notFoundHandlers
    added,             \* history: the calls of store.Add made so far, in order
    calls,             \* history: the calls of Router.Use and Router.NotFound, in order
    found,             \* the locals of Router.Find at its return, when the last call was a Find
    c,                 \* the Context of the request being served
    stack,             \* the Go call stack of the request: frames of Next and of handlers
    response,          \* what the request wrote to its http.ResponseWriter
    outcome,           \* what the outermost Next returned, and the handlers that ran
    ignoreTrailingSlash, \* Router.IgnoreTrailingSlash
    request,           \* the http.Request of the request being served: method and URL path
    header,            \* the header of the response: the value of Allow, <<>> when not set
    groups,            \* the RouteGroups created by Group: prefix and handlers
    routeObjs,         \* the Route objects, in the order of their creation
    namedRoutes,       \* Router.namedRoutes: name -> Route (0 when absent)
    pool,              \* Router.pool: the Contexts free to be taken
    contexts,          \* the Contexts the pool has made so far
    reqs               \* the concurrent calls of ServeHTTP

vars == <<stores, maxParams, routes, handlers, notFound, notFoundHandlers,
          added, calls, found, c, stack, response, outcome,
          ignoreTrailingSlash, request, header, groups, routeObjs, namedRoutes,
          pool, contexts, reqs>>

routerVars == <<stores, maxParams, routes, handlers, notFound, notFoundHandlers>>
requestVars == <<c, stack, response, outcome>>
\* the state that registration, lookup and the bare pipeline leave alone
poolVars == <<pool, contexts, reqs>>
extraVars == <<ignoreTrailingSlash, request, header, groups, routeObjs, namedRoutes, poolVars>>

----------------------------------------------------------------------------
(* Bounds of the model.                                                    *)

\* the number of routes added to a router
MaxAdds == 2
\* the length of the request paths looked up
MaxPathLen == 4
\* the number of handlers of a pipeline
MaxHandlers == 3
\* the number of Router.Use and Router.NotFound calls
MaxCalls == 3
\* the number of arguments of a URL call
MaxArgs == 4

----------------------------------------------------------------------------
(* Strings, tokens and patterns.                                           *)

Chars == {"/", "a", "1"}
Digits == {"1"}

\* the parameter markers used in patterns
Markers == {"<id>", "<n:\\d+>", "<:.*>"}

IsMarker(tok) == tok \in Markers

\* the name part of a marker: the text between "<" and ":" or ">"
MarkerName(tok) ==
    CASE tok = "<id>" -> "id"
      [] tok = "<n:\\d+>" -> "n"
      [] tok = "<:.*>" -> ""

\* the compiled regular expression of a marker, "" (nil) when it has none
MarkerRegex(tok) ==
    CASE tok = "<id>" -> ""
      [] tok = "<n:\\d+>" -> "^\\d+"
      [] tok = "<:.*>" -> "^.*"

Min(a, b) == IF a < b THEN a ELSE b

\* all strings over Chars of length at most n
Paths(n) == UNION {[1..k -> Chars] : k \in 0..n}

\* the route patterns registered in the model
Patterns ==
    { <<>>,
      <<"/", "a">>,
      <<"/", "a", "a">>,
      <<"/", "<id>">>,
      <<"/", "<n:\\d+>">>,
      <<"/", "*">>,
      <<"/", "a", "/", "<id>">>,
      <<"/", "<id>", "/", "a">>,
      <<"/", "<id>", "/", "<n:\\d+>">>,
      <<"/", "<n:\\d+>", "a">> }

----------------------------------------------------------------------------
(* The store: a radix tree.  Nodes live in a sequence and refer to each    *)
(* other by index; index 0 is the nil pointer and node 1 is the root.      *)

\* no data (a nil interface value)
Nil == [ok |-> FALSE, h |-> <<>>]
Data(h) == [ok |-> TRUE, h |-> h]

\* the order reported when nothing matches (math.MaxInt32)
MaxOrder == 2147483647

NoChildren == [ch \in Chars |-> 0]

NewNode(static, key, data, order, minOrder, regex, pindex, pnames) ==
    [static |-> static, key |-> key, data |-> data, order |-> order,
     minOrder |-> minOrder, children |-> NoChildren, pchildren |-> <<>>,
     regex |-> regex, pindex |-> pindex, pnames |-> pnames]

newStore ==
    [nodes |-> <<NewNode(TRUE, <<>>, Nil, 0, 0, "", -1, <<>>)>>, count |-> 0]

NoStore == [nodes |-> <<>>, count |-> 0]

\* the length of the longest common prefix of two token sequences
Matched(a, b) ==
    CHOOSE k \in 0..Min(Len(a), Len(b)) :
        /\ \A i \in 1..k : a[i] = b[i]
        /\ k = Min(Len(a), Len(b)) \/ a[k + 1] # b[k + 1]

\* the position of the first parameter marker of key, 0 when it has none
FirstMarker(key) ==
    IF \E i \in 1..Len(key) : IsMarker(key[i])
    THEN CHOOSE i \in 1..Len(key) :
            IsMarker(key[i]) /\ \A j \in 1..(i - 1) : ~IsMarker(key[j])
    ELSE 0

RECURSIVE addChild(_, _, _, _, _)
\* node.addChild: creates the static and parameter nodes that store data under key
addChild(nodes, n, key, data, order) ==
    LET p0 == FirstMarker(key)
        sid == Len(nodes) + 1
    IN  IF p0 = 0
        THEN \* no parameter token: one static node holds the data
             LET child == NewNode(TRUE, key, data, order, order, "",
                                  nodes[n].pindex, nodes[n].pnames)
             IN  [nodes |-> Append([nodes EXCEPT ![n].children[key[1]] = sid], child),
                  pn |-> child.pindex + 1]
        ELSE LET nodes1 ==
                     IF p0 > 1
                     THEN Append([nodes EXCEPT ![n].children[key[1]] = sid],
                                 NewNode(TRUE, SubSeq(key, 1, p0 - 1), Nil, 0, order, "",
                                         nodes[n].pindex, nodes[n].pnames))
                     ELSE nodes
                 par == IF p0 > 1 THEN sid ELSE n
                 pid == Len(nodes1) + 1
                 pnames == Append(nodes1[par].pnames, MarkerName(key[p0]))
                 atEnd == p0 = Len(key)
                 child == NewNode(FALSE, <<key[p0]>>,
                                  IF atEnd THEN data ELSE Nil,
                                  IF atEnd THEN order ELSE 0,
                                  order, MarkerRegex(key[p0]),
                                  Len(pnames) - 1, pnames)
                 nodes2 == Append([nodes1 EXCEPT ![par].pchildren = Append(@, pid)], child)
             IN  IF atEnd
                 THEN [nodes |-> nodes2, pn |-> child.pindex + 1]
                 ELSE addChild(nodes2, pid, SubSeq(key, p0 + 1, Len(key)), data, order)

\* a wrong attach: the data of a later Add of the same key replaces the first
attachDataOverride(nodes, n, data, order) ==
    [nodes EXCEPT ![n].data = data, ![n].order = order]

\* node.add at the node of the whole key: the first data of a node stays
attachData(nodes, n, data, order) ==
    IF nodes[n].data = Nil
    THEN [nodes EXCEPT ![n].data = data, ![n].order = order]
    ELSE nodes

RECURSIVE nodeAdd(_, _, _, _, _)
RECURSIVE addToParams(_, _, _, _, _, _)
\* the loop of node.add over the parameter children, from child i on
addToParams(nodes, n, i, key, data, order) ==
    IF i > Len(nodes[n].pchildren)
    THEN addChild(nodes, n, key, data, order)
    ELSE LET r == nodeAdd(nodes, nodes[n].pchildren[i], key, data, order)
         IN  IF r.pn >= 0 THEN r ELSE addToParams(nodes, n, i + 1, key, data, order)

\* node.add: adds data under key to the tree rooted at node n; pn is the number of
\* parameters of the key, or -1 when the key does not belong under n
nodeAdd(nodes, n, key, data, order) ==
    LET nd == nodes[n]
        matched == Matched(key, nd.key)
    IN  IF matched = Len(nd.key)
        THEN IF matched = Len(key)
             THEN [nodes |-> attachData(nodes, n, data, order), pn |-> nd.pindex + 1]
             ELSE LET newKey == SubSeq(key, matched + 1, Len(key))
                      sc == IF newKey[1] \in Chars THEN nd.children[newKey[1]] ELSE 0
                      viaStatic == IF sc # 0
                                   THEN nodeAdd(nodes, sc, newKey, data, order)
                                   ELSE [nodes |-> nodes, pn |-> -1]
                  IN  IF viaStatic.pn >= 0
                      THEN viaStatic
                      ELSE addToParams(nodes, n, 1, newKey, data, order)
        ELSE IF matched = 0 \/ ~nd.static
        THEN [nodes |-> nodes, pn |-> -1]
        ELSE \* split the node at the end of the common prefix
             LET id1 == Len(nodes) + 1
                 n1 == [nd EXCEPT !.key = SubSeq(nd.key, matched + 1, Len(nd.key)),
                                  !.regex = ""]
                 top == [nd EXCEPT !.key = SubSeq(key, 1, matched),
                                   !.data = Nil,
                                   !.pchildren = <<>>,
                                   !.children = [NoChildren EXCEPT ![n1.key[1]] = id1]]
             IN  nodeAdd(Append([nodes EXCEPT ![n] = top], n1), n, key, data, order)

\* store.Add
storeAdd(s, key, data) ==
    LET r == nodeAdd(s.nodes, 1, key, data, s.count + 1)
    IN  [store |-> [nodes |-> r.nodes, count |-> s.count + 1], pn |-> r.pn]

----------------------------------------------------------------------------
(* Lookup.  pvalues is the caller's buffer: Go passes the slice by         *)
(* reference, so every function returns the buffer as it leaves it.        *)

\* pvalues[i] = v, on the 0-based index of the code
PutValue(pvalues, i, v) ==
    IF i + 1 \in 1..Len(pvalues) THEN [pvalues EXCEPT ![i + 1] = v] ELSE pvalues

HasPrefix(key, prefix) ==
    /\ Len(prefix) <= Len(key)
    /\ \A i \in 1..Len(prefix) : key[i] = prefix[i]

Drop(key, k) == SubSeq(key, k + 1, Len(key))

\* the length of the longest run of digits at the start of key:
\* the end of the match of ^\d+ when it is positive, no match when it is 0
DigitRun(key) ==
    CHOOSE k \in 0..Len(key) :
        /\ \A i \in 1..k : key[i] \in Digits
        /\ k = Len(key) \/ key[k + 1] \notin Digits

\* the length of the run of non-"/" characters at the start of key
SegmentRun(key) ==
    CHOOSE k \in 0..Len(key) :
        /\ \A i \in 1..k : key[i] # "/"
        /\ k = Len(key) \/ key[k + 1] = "/"

NoMatch(pvalues) ==
    [data |-> Nil, pnames |-> <<>>, order |-> MaxOrder, pvalues |-> pvalues]

\* a wrong copy: the values of the better match stay in the scratch buffer
CopyValuesNone(pvalues, tvalues, from, to) == pvalues

\* the copy of the values of a better match from the scratch buffer
CopyValues(pvalues, tvalues, from, to) ==
    [i \in 1..Len(pvalues) |->
        IF i - 1 >= from /\ i - 1 < to /\ i <= Len(tvalues) THEN tvalues[i] ELSE pvalues[i]]

\* a wrong pruning: no parameter child is tried once a literal branch matched
skipChildOnceFound(nodes, child, st) ==
    nodes[child].minOrder >= st.order \/ st.data # Nil

\* node.get skips a parameter child that cannot hold a match added earlier
skipChild(nodes, child, st) == nodes[child].minOrder >= st.order

RECURSIVE nodeGet(_, _, _, _)
RECURSIVE getParams(_, _, _, _, _)
\* the loop of node.get over the parameter children, from child i on; st holds
\* data, pnames, order, pvalues, tvalues and allocated
getParams(nodes, n, i, key, st) ==
    IF i > Len(nodes[n].pchildren)
    THEN [data |-> st.data, pnames |-> st.pnames, order |-> st.order,
          pvalues |-> st.pvalues]
    ELSE LET child == nodes[n].pchildren[i]
         IN  IF skipChild(nodes, child, st)
             THEN getParams(nodes, n, i + 1, key, st)
             ELSE LET fresh == st.data # Nil /\ ~st.allocated
                      allocated == st.allocated \/ fresh
                      \* unallocated, tvalues is the caller's buffer itself
                      tin == IF fresh THEN [j \in 1..Len(st.pvalues) |-> <<>>]
                             ELSE IF allocated THEN st.tvalues ELSE st.pvalues
                      r == nodeGet(nodes, child, key, tin)
                      better == r.data # Nil /\ r.order < st.order
                      pv == IF allocated
                            THEN IF better
                                 THEN CopyValues(st.pvalues, r.pvalues,
                                                 nodes[child].pindex, Len(r.pnames))
                                 ELSE st.pvalues
                            ELSE r.pvalues
                  IN  getParams(nodes, n, i + 1, key,
                        [data |-> IF better THEN r.data ELSE st.data,
                         pnames |-> IF better THEN r.pnames ELSE st.pnames,
                         order |-> IF better THEN r.order ELSE st.order,
                         pvalues |-> pv,
                         tvalues |-> IF allocated THEN r.pvalues ELSE pv,
                         allocated |-> allocated])

\* node.get: the data stored under a key that matches the tree rooted at node n
nodeGet(nodes, n, key0, pvalues0) ==
    LET nd == nodes[n]
        m == IF nd.static THEN Len(nd.key)
             ELSE IF nd.regex = "^.*" THEN Len(key0)
             ELSE IF nd.regex # "" THEN DigitRun(key0)
             ELSE SegmentRun(key0)
        fails == IF nd.static THEN ~HasPrefix(key0, nd.key)
                 ELSE nd.regex = "^\\d+" /\ m = 0
        key == Drop(key0, m)
        pvalues == IF nd.static THEN pvalues0
                   ELSE PutValue(pvalues0, nd.pindex, SubSeq(key0, 1, m))
        child == IF Len(key) > 0 THEN nd.children[key[1]] ELSE 0
    IN  IF fails THEN NoMatch(pvalues0)
        ELSE IF child # 0 /\ Len(nd.pchildren) = 0
        THEN nodeGet(nodes, child, key, pvalues)
        ELSE LET r == IF child # 0 THEN nodeGet(nodes, child, key, pvalues)
                      ELSE IF Len(key) = 0 /\ nd.data # Nil
                      THEN [data |-> nd.data, pnames |-> nd.pnames,
                            order |-> nd.order, pvalues |-> pvalues]
                      ELSE NoMatch(pvalues)
             IN  getParams(nodes, n, 1, key,
                   [data |-> r.data, pnames |-> r.pnames, order |-> r.order,
                    pvalues |-> r.pvalues, tvalues |-> r.pvalues,
                    allocated |-> FALSE])

\* store.Get
storeGet(s, path, pvalues) ==
    LET r == nodeGet(s.nodes, 1, path, pvalues)
    IN  [data |-> r.data, pnames |-> r.pnames, pvalues |-> r.pvalues]

----------------------------------------------------------------------------
(* The Router.                                                             *)

\* the HTTP methods the model registers routes under and sends requests with
UsedMethods == {"GET", "OPTIONS", "POST"}

\* the handlers given to the k-th registered route
RouteHandler(k) == <<"h1", "h2", "h3", "h4", "h5", "h6">>[k]

\* combineHandlers: a new list holding h1 then h2
combineHandlers(h1, h2) == h1 \o h2

\* the path given to store.Add: a trailing asterisk becomes the marker <:.*>
StoredPath(path) ==
    IF Len(path) > 0 /\ path[Len(path)] = "*"
    THEN Append(SubSeq(path, 1, Len(path) - 1), "<:.*>")
    ELSE path

\* Router.find on the stores ss, with the fallback list nf
find(ss, nf, method, path, pvalues) ==
    LET r == IF ss[method] # NoStore
             THEN storeGet(ss[method], path, pvalues)
             ELSE [data |-> Nil, pnames |-> <<>>, pvalues |-> pvalues]
    IN  IF r.data # Nil
        THEN [handlers |-> r.data.h, pnames |-> r.pnames, pvalues |-> r.pvalues]
        ELSE [handlers |-> nf, pnames |-> r.pnames, pvalues |-> r.pvalues]

\* a buffer of n empty strings: make([]string, n)
MakeValues(n) == [i \in 1..n |-> <<>>]

\* the map Router.Find builds from the names and the values: a later entry of
\* the same name overwrites an earlier one
ParamsMap(pnames, pvalues) ==
    [name \in {pnames[i] : i \in 1..Len(pnames)} |->
        LET last == CHOOSE i \in 1..Len(pnames) :
                        pnames[i] = name /\ \A j \in (i + 1)..Len(pnames) : pnames[j] # name
        IN  pvalues[last]]

\* Router.New
RouterInit ==
    /\ stores = [m \in UsedMethods |-> NoStore]
    /\ maxParams = 0
    /\ routes = <<>>
    /\ handlers = <<>>
    /\ notFound = <<"MethodNotAllowedHandler", "NotFoundHandler">>
    /\ notFoundHandlers = <<"MethodNotAllowedHandler", "NotFoundHandler">>

NoFind == [called |-> FALSE, method |-> "", path |-> <<>>, handlers |-> <<>>,
           pnames |-> <<>>, pvalues |-> <<>>, params |-> <<>>]

\* error values: nil, an HTTPError with its status, or any other error
NoError == [nil |-> TRUE, http |-> FALSE, status |-> 0, text |-> <<>>]
HTTPError(status, text) == [nil |-> FALSE, http |-> TRUE, status |-> status, text |-> text]
OtherError(text) == [nil |-> FALSE, http |-> FALSE, status |-> 0, text |-> text]

\* a Context after init, with the given handlers
NewContext(hs) == [handlers |-> hs, index |-> -1, pnames |-> <<>>, pvalues |-> <<>>]

Idle == [pc |-> "idle", err |-> NoError, log |-> <<>>]

NoRequest ==
    /\ c = NewContext(<<>>)
    /\ stack = <<>>
    /\ response = <<>>
    /\ outcome = Idle

\* the number of concurrent calls of ServeHTTP
MaxRequests == 2

\* a call of ServeHTTP that has not started
NotStarted == [pc |-> "idle", ctx |-> 0, path |-> <<>>, buffer |-> 0, index |-> -1,
               handlers |-> <<>>, pnames |-> <<>>, pvalues |-> <<>>]

\* New: an empty pool, no Context made, no call of ServeHTTP started
PoolInit ==
    /\ pool = {}
    /\ contexts = <<>>
    /\ reqs = [r \in 1..MaxRequests |-> NotStarted]

\* no request received, and the options of a new Router
ExtraInit ==
    /\ ignoreTrailingSlash = FALSE
    /\ request = [method |-> "", path |-> <<>>]
    /\ header = <<>>
    /\ groups = <<>>
    /\ routeObjs = <<>>
    /\ namedRoutes = [name \in {"n1", "n2"} |-> 0]
    /\ PoolInit

\* a wrong addRoute: every route gets a new store
AddRouteNewStore(method, path, hs) ==
    LET data == Data(combineHandlers(handlers, hs))
        r == storeAdd(newStore, StoredPath(path), data)
    IN  /\ routes' = Append(routes, [method |-> method, path |-> path])
        /\ stores' = [stores EXCEPT ![method] = r.store]
        /\ maxParams' = IF r.pn > maxParams THEN r.pn ELSE maxParams
        /\ added' = Append(added, [method |-> method, key |-> StoredPath(path),
                                   data |-> data, pn |-> r.pn])
        /\ found' = NoFind
        /\ UNCHANGED <<handlers, notFound, notFoundHandlers>>

\* RouteGroup.add on the router's own group, and the Router.addRoute it calls
AddRoute(method, path, hs) ==
    LET store == IF stores[method] = NoStore THEN newStore ELSE stores[method]
        data == Data(combineHandlers(handlers, hs))
        r == storeAdd(store, StoredPath(path), data)
    IN  /\ routes' = Append(routes, [method |-> method, path |-> path])
        /\ stores' = [stores EXCEPT ![method] = r.store]
        /\ maxParams' = IF r.pn > maxParams THEN r.pn ELSE maxParams
        /\ added' = Append(added, [method |-> method, key |-> StoredPath(path),
                                   data |-> data, pn |-> r.pn])
        /\ found' = NoFind
        /\ UNCHANGED <<handlers, notFound, notFoundHandlers>>

\* Router.Find
Find(method, path) ==
    LET r == find(stores, notFoundHandlers, method, path, MakeValues(maxParams))
    IN  found' = [called |-> TRUE, method |-> method, path |-> path,
                  handlers |-> r.handlers, pnames |-> r.pnames,
                  pvalues |-> r.pvalues, params |-> ParamsMap(r.pnames, r.pvalues)]

----------------------------------------------------------------------------
(* The specification of route registration and lookup.                     *)

StoreInit ==
    /\ RouterInit
    /\ added = <<>>
    /\ calls = <<>>
    /\ found = NoFind
    /\ NoRequest
    /\ ExtraInit

StoreAddRoute ==
    /\ Len(routes) < MaxAdds
    /\ \E path \in Patterns :
          AddRoute("GET", path, <<RouteHandler(Len(routes) + 1)>>)
    /\ UNCHANGED <<calls, requestVars>>
    /\ UNCHANGED extraVars

\* one lookup after the routes registered so far
StoreFind ==
    /\ ~found.called
    /\ \E path \in Paths(MaxPathLen) : Find("GET", path)
    /\ UNCHANGED <<routerVars, added, calls, requestVars>>
    /\ UNCHANGED extraVars

StoreNext == StoreAddRoute \/ StoreFind

SpecStore == StoreInit /\ [][StoreNext]_vars

----------------------------------------------------------------------------
(* Context.Next and Context.Abort. A handler is a short program: the calls *)
(* it makes on the context (ops), then the error it returns (ret): nil,    *)
(* the result of its last call of Next, an error of its own, or the        *)
(* HTTPError of NotFoundHandler. The call stack is explicit: a frame of    *)
(* Next sits under the frame of the handler it invoked.                    *)

StatusNotFound == 404
StatusInternalServerError == 500
StatusBadRequest == 400

Handler(ops, ret) == [ops |-> ops, ret |-> ret]

\* the behaviours a handler of the model may have
HandlerKinds ==
    { Handler(<<>>, "nil"),                   \* returns nil
      Handler(<<>>, "err"),                   \* returns an error
      Handler(<<>>, "notfound"),              \* NotFoundHandler
      Handler(<<"abort">>, "nil"),            \* c.Abort(); return nil
      Handler(<<"next">>, "last"),            \* return c.Next()
      Handler(<<"next">>, "nil"),             \* c.Next(); return nil
      Handler(<<"next">>, "err"),             \* c.Next(); return an error of its own
      Handler(<<"next", "next">>, "last"),    \* c.Next(); return c.Next()
      Handler(<<"abort", "next">>, "last"),   \* c.Abort(); return c.Next()
      Handler(<<"next", "abort">>, "nil") }   \* c.Next(); c.Abort(); return nil

HandlerLists == UNION {[1..n -> HandlerKinds] : n \in 0..MaxHandlers}

\* the error handler i returns, last being the result of its last call of Next
ReturnValue(h, i, last) ==
    CASE h.ret = "nil" -> NoError
      [] h.ret = "last" -> last
      [] h.ret = "err" -> OtherError(<<"error", i>>)
      [] h.ret = "notfound" -> HTTPError(StatusNotFound, <<"Not Found">>)
      [] h.ret = "httperr" -> HTTPError(StatusBadRequest, <<"bad">>)

Top(stk) == stk[Len(stk)]
Pop(stk) == SubSeq(stk, 1, Len(stk) - 1)

NextFrame == [f |-> "Next", i |-> -1, pc |-> 0, last |-> NoError]
HandlerFrame(i) == [f |-> "handler", i |-> i, pc |-> 1, last |-> NoError]

\* an entry of the trace of a request (i = -1 stands for ServeHTTP)
Event(e, i, err) == [e |-> e, i |-> i, err |-> err]

\* wrong variants of the steps of Next, Abort and handleError
loopAdvanceLocal(cx, i) == i + 1
nextStopsNever(err) == FALSE
nextResultNil(err) == NoError
abortIndexKeep(cx) == cx.index
handleErrorAlways500(err) ==
    [status |-> StatusInternalServerError, body |-> Append(err.text, "\n")]

\* Next: c.index++ on entry
enterNext(cx) == cx.index + 1

\* Next: the c.index++ of the loop, after handler i returned nil
loopAdvance(cx, i) == cx.index + 1

\* Next: if err != nil
nextStops(err) == err # NoError

\* Next: return err
nextResult(err) == err

\* Abort: c.index = len(c.handlers)
abortIndex(cx) == Len(cx.handlers)

\* handleError: what http.Error writes to the response
handleError(err) ==
    IF err.http
    THEN [status |-> err.status, body |-> Append(err.text, "\n")]
    ELSE [status |-> StatusInternalServerError, body |-> Append(err.text, "\n")]

\* a call of Next returns v to its caller, stk being the stack under its frame
Return(stk, v, log) ==
    IF stk = <<>>
    THEN /\ stack' = <<>>
         /\ outcome' = [pc |-> "returned", err |-> v,
                        log |-> Append(log, Event("resume", -1, v))]
    ELSE /\ stack' = [stk EXCEPT ![Len(stk)].last = v]
         /\ outcome' = [outcome EXCEPT !.log = Append(log, Event("resume", Top(stk).i, v))]

\* ServeHTTP calls c.Next()
ServeNext ==
    /\ outcome.pc = "idle"
    /\ c' = [c EXCEPT !.index = enterNext(c)]
    /\ stack' = <<NextFrame>>
    /\ outcome' = [outcome EXCEPT !.pc = "running",
                                  !.log = Append(@, Event("next", -1, NoError))]
    /\ UNCHANGED <<routerVars, added, calls, found, response>>
    /\ UNCHANGED extraVars

\* Next tests c.index < n, and invokes c.handlers[c.index] or returns nil
NextLoop ==
    /\ outcome.pc = "running"
    /\ stack # <<>>
    /\ Top(stack).f = "Next"
    /\ IF c.index < Len(c.handlers)
       THEN /\ stack' = Append(stack, HandlerFrame(c.index))
            /\ outcome' = [outcome EXCEPT !.log = Append(@, Event("start", c.index, NoError))]
       ELSE Return(Pop(stack), NoError, outcome.log)
    /\ UNCHANGED <<routerVars, added, calls, found, c, response>>
    /\ UNCHANGED extraVars

\* the running handler calls c.Next() or c.Abort()
HandlerStep ==
    /\ outcome.pc = "running"
    /\ stack # <<>>
    /\ Top(stack).f = "handler"
    /\ LET fr == Top(stack)
           h == c.handlers[fr.i + 1]
       IN  /\ fr.pc <= Len(h.ops)
           /\ h.ops[fr.pc] \in {"next", "abort"}
           /\ IF h.ops[fr.pc] = "next"
              THEN /\ c' = [c EXCEPT !.index = enterNext(c)]
                   /\ stack' = Append([stack EXCEPT ![Len(stack)].pc = fr.pc + 1], NextFrame)
              ELSE /\ c' = [c EXCEPT !.index = abortIndex(c)]
                   /\ stack' = [stack EXCEPT ![Len(stack)].pc = fr.pc + 1]
           /\ outcome' = [outcome EXCEPT !.log = Append(@, Event(h.ops[fr.pc], fr.i, NoError))]
    /\ UNCHANGED <<routerVars, added, calls, found, response>>
    /\ UNCHANGED extraVars

\* the running handler returns to the loop of Next that invoked it
HandlerReturn ==
    /\ outcome.pc = "running"
    /\ stack # <<>>
    /\ Top(stack).f = "handler"
    /\ LET fr == Top(stack)
           h == c.handlers[fr.i + 1]
           v == ReturnValue(h, fr.i, fr.last)
           log == Append(outcome.log, Event("return", fr.i, v))
           stk == Pop(stack)
       IN  /\ fr.pc > Len(h.ops)
           /\ IF nextStops(v)
              THEN /\ Return(Pop(stk), nextResult(v), log)
                   /\ c' = c
              ELSE /\ c' = [c EXCEPT !.index = loopAdvance(c, fr.i)]
                   /\ stack' = stk
                   /\ outcome' = [outcome EXCEPT !.log = log]
    /\ UNCHANGED <<routerVars, added, calls, found, response>>
    /\ UNCHANGED extraVars

\* ServeHTTP after c.Next() returned: handleError when the error is not nil
ServeFinish ==
    /\ outcome.pc = "returned"
    /\ response' = IF outcome.err # NoError
                   THEN Append(response, handleError(outcome.err))
                   ELSE response
    /\ outcome' = [outcome EXCEPT !.pc = "done"]
    /\ UNCHANGED <<routerVars, added, calls, found, c, stack>>
    /\ UNCHANGED extraVars

\* a request whose handlers were found, before ServeHTTP calls c.Next()
PipeInit ==
    /\ RouterInit
    /\ added = <<>>
    /\ calls = <<>>
    /\ found = NoFind
    /\ c \in {NewContext(hs) : hs \in HandlerLists}
    /\ stack = <<>>
    /\ response = <<>>
    /\ outcome = Idle
    /\ ExtraInit

PipeNext == ServeNext \/ NextLoop \/ HandlerStep \/ HandlerReturn \/ ServeFinish

SpecPipe == PipeInit /\ [][PipeNext]_vars

----------------------------------------------------------------------------
(* Router.Use and Router.NotFound.                                         *)

\* the handler lists given to Use and to NotFound
UseArgs == {<<>>, <<"m1">>, <<"m2", "m3">>}
NotFoundArgs == {<<>>, <<"n1">>, <<"n2", "NotFoundHandler">>}

\* a wrong Use: the not-found handlers are not rebuilt
RouterUseStale(hs) ==
    /\ handlers' = handlers \o hs
    /\ calls' = Append(calls, [op |-> "Use", hs |-> hs])
    /\ found' = NoFind
    /\ UNCHANGED <<stores, maxParams, routes, notFound, notFoundHandlers>>

\* Router.Use, with the RouteGroup.Use it calls
RouterUse(hs) ==
    /\ handlers' = handlers \o hs
    /\ notFoundHandlers' = combineHandlers(handlers', notFound)
    /\ calls' = Append(calls, [op |-> "Use", hs |-> hs])
    /\ found' = NoFind
    /\ UNCHANGED <<stores, maxParams, routes, notFound>>

\* Router.NotFound
RouterNotFound(hs) ==
    /\ notFound' = hs
    /\ notFoundHandlers' = combineHandlers(handlers, hs)
    /\ calls' = Append(calls, [op |-> "NotFound", hs |-> hs])
    /\ found' = NoFind
    /\ UNCHANGED <<stores, maxParams, routes, handlers>>

ConfigUse ==
    /\ Len(calls) < MaxCalls
    /\ \E hs \in UseArgs : RouterUse(hs)
    /\ UNCHANGED <<added, requestVars>>
    /\ UNCHANGED extraVars

ConfigNotFound ==
    /\ Len(calls) < MaxCalls
    /\ \E hs \in NotFoundArgs : RouterNotFound(hs)
    /\ UNCHANGED <<added, requestVars>>
    /\ UNCHANGED extraVars

\* one route, registered at any moment of the configuration
ConfigAddRoute ==
    /\ routes = <<>>
    /\ AddRoute("GET", <<"/", "a">>, <<RouteHandler(1)>>)
    /\ UNCHANGED <<calls, requestVars>>
    /\ UNCHANGED extraVars

\* one lookup, of a path that matches the route or of one that does not
ConfigFind ==
    /\ ~found.called
    /\ \E path \in {<<"/", "a">>, <<"/", "1">>, <<>>} : Find("GET", path)
    /\ UNCHANGED <<routerVars, added, calls, requestVars>>
    /\ UNCHANGED extraVars

ConfigNext == ConfigUse \/ ConfigNotFound \/ ConfigAddRoute \/ ConfigFind

SpecConfig == StoreInit /\ [][ConfigNext]_vars

----------------------------------------------------------------------------
(* Router.ServeHTTP with the built-in handlers of the not-found chain.     *)

StatusMethodNotAllowed == 405

\* Methods: the supported methods, declared in ascending string order
Methods == <<"CONNECT", "DELETE", "GET", "HEAD", "OPTIONS", "PATCH", "POST", "PUT", "TRACE">>

\* the place of a method name in the order of strings
MethodRank(m) == CHOOSE k \in 1..Len(Methods) : Methods[k] = m

\* sort.Strings, on the method names collected from the map
RECURSIVE SortStrings(_)
SortStrings(S) ==
    IF S = {} THEN <<>>
    ELSE LET m == CHOOSE x \in S : \A y \in S : MethodRank(x) <= MethodRank(y)
         IN  <<m>> \o SortStrings(S \ {m})

\* strings.Join
RECURSIVE Join(_, _)
Join(ms, sep) ==
    IF ms = <<>> THEN <<>>
    ELSE IF Len(ms) = 1 THEN <<ms[1]>>
    ELSE <<ms[1], sep>> \o Join(Tail(ms), sep)

\* Router.findAllowedMethods: the keys of the map it returns
findAllowedMethods(ss, mp, path) ==
    {m \in DOMAIN ss :
        /\ ss[m] # NoStore
        /\ storeGet(ss[m], path, MakeValues(mp)).data # Nil}

\* a wrong normalisation: one trailing slash is removed
normalizeRequestPathOnce(flag, path) ==
    IF flag /\ Len(path) > 1 /\ path[Len(path)] = "/"
    THEN SubSeq(path, 1, Len(path) - 1)
    ELSE path

\* Router.normalizeRequestPath
normalizeRequestPath(flag, path) ==
    IF flag /\ Len(path) > 1 /\ path[Len(path)] = "/"
    THEN LET kept == {j \in 2..(Len(path) - 1) : path[j] # "/"}
         IN  IF kept # {}
             THEN SubSeq(path, 1, CHOOSE j \in kept : \A k \in kept : k <= j)
             ELSE SubSeq(path, 1, 1)
    ELSE path

\* what a registered handler does, by its name: the two built-in handlers,
\* and route handlers that return nil
Behaviour(name) ==
    CASE name = "MethodNotAllowedHandler" -> Handler(<<"allow">>, "nil")
      [] name = "NotFoundHandler" -> Handler(<<>>, "notfound")
      [] OTHER -> Handler(<<>>, "nil")

Behaviours(names) == [k \in 1..Len(names) |-> Behaviour(names[k])]

\* the patterns registered and the paths requested
ServePatterns == {<<"/", "a">>, <<"/", "<id>">>, <<"/", "a", "/">>}
ServePaths ==
    { <<>>, <<"/">>, <<"/", "a">>, <<"/", "a", "/">>, <<"/", "a", "/", "/">>,
      <<"/", "/", "/">>, <<"/", "1">>, <<"a", "/">> }

\* a wrong handler: the status is written for OPTIONS requests too
AllowWritesStatusAlways(methods) ==
    Append(response, [status |-> StatusMethodNotAllowed, body |-> <<>>])

\* MethodNotAllowedHandler: c.Response.WriteHeader unless the method is OPTIONS
AllowWritesStatus(methods) ==
    IF request.method # "OPTIONS"
    THEN Append(response, [status |-> StatusMethodNotAllowed, body |-> <<>>])
    ELSE response

\* a wrong header: the methods in the order the map yields them
AllowHeaderUnsorted(methods) ==
    LET ms == methods \cup {"OPTIONS"}
        RECURSIVE Backwards(_)
        Backwards(S) ==
            IF S = {} THEN <<>>
            ELSE LET m == CHOOSE x \in S : \A y \in S : MethodRank(y) <= MethodRank(x)
                 IN  <<m>> \o Backwards(S \ {m})
    IN  Join(Backwards(ms), ", ")

\* MethodNotAllowedHandler: the value of the Allow header
AllowHeader(methods) == Join(SortStrings(methods \cup {"OPTIONS"}), ", ")

\* the running handler is MethodNotAllowedHandler
MethodNotAllowed ==
    /\ outcome.pc = "running"
    /\ stack # <<>>
    /\ Top(stack).f = "handler"
    /\ LET fr == Top(stack)
           h == c.handlers[fr.i + 1]
           methods == findAllowedMethods(stores, maxParams, request.path)
       IN  /\ fr.pc <= Len(h.ops)
           /\ h.ops[fr.pc] = "allow"
           /\ stack' = [stack EXCEPT ![Len(stack)].pc = fr.pc + 1]
           /\ IF methods = {}
              THEN /\ outcome' = [outcome EXCEPT !.log = Append(@, Event("pass", fr.i, NoError))]
                   /\ UNCHANGED <<c, header, response>>
              ELSE /\ header' = AllowHeader(methods)
                   /\ response' = AllowWritesStatus(methods)
                   /\ c' = [c EXCEPT !.index = abortIndex(c)]
                   /\ outcome' = [outcome EXCEPT !.log = Append(@, Event("abort", fr.i, NoError))]
    /\ UNCHANGED <<routerVars, added, calls, found, ignoreTrailingSlash, request,
                   groups, routeObjs, namedRoutes, poolVars>>

\* Router.ServeHTTP up to its call of c.Next(): the Context is initialised,
\* the handlers are looked up under the normalised path, and Next is entered
ServeRequest(method, path) ==
    LET key == normalizeRequestPath(ignoreTrailingSlash, path)
        r == find(stores, notFoundHandlers, method, key, MakeValues(maxParams))
        cx == [NewContext(Behaviours(r.handlers)) EXCEPT !.pnames = r.pnames,
                                                         !.pvalues = r.pvalues]
    IN  /\ request' = [method |-> method, path |-> path]
        /\ found' = [called |-> TRUE, method |-> method, path |-> key,
                     handlers |-> r.handlers, pnames |-> r.pnames,
                     pvalues |-> r.pvalues, params |-> ParamsMap(r.pnames, r.pvalues)]
        /\ c' = [cx EXCEPT !.index = enterNext(cx)]
        /\ stack' = <<NextFrame>>
        /\ outcome' = [outcome EXCEPT !.pc = "running",
                                      !.log = Append(@, Event("next", -1, NoError))]

ServeInit ==
    /\ RouterInit
    /\ added = <<>>
    /\ calls = <<>>
    /\ found = NoFind
    /\ NoRequest
    /\ ignoreTrailingSlash \in BOOLEAN
    /\ request = [method |-> "", path |-> <<>>]
    /\ header = <<>>
    /\ groups = <<>>
    /\ routeObjs = <<>>
    /\ namedRoutes = [name \in {"n1", "n2"} |-> 0]
    /\ PoolInit

\* a route is registered before the request arrives
ServeAddRoute ==
    /\ request.method = ""
    /\ Len(routes) < MaxAdds
    /\ \E method \in UsedMethods : \E path \in ServePatterns :
          AddRoute(method, path, <<RouteHandler(Len(routes) + 1)>>)
    /\ UNCHANGED <<calls, requestVars, extraVars>>

ServeArrives ==
    /\ request.method = ""
    /\ \E method \in UsedMethods : \E path \in ServePaths : ServeRequest(method, path)
    /\ UNCHANGED <<routerVars, added, calls, response, ignoreTrailingSlash, header,
                   groups, routeObjs, namedRoutes, poolVars>>

ServeNextStep ==
    \/ ServeAddRoute
    \/ ServeArrives
    \/ NextLoop
    \/ MethodNotAllowed
    \/ HandlerReturn
    \/ ServeFinish

SpecServe == ServeInit /\ [][ServeNextStep]_vars

\* a request of any path to a router without routes
NormalizeArrives ==
    /\ request.method = ""
    /\ \E path \in Paths(MaxPathLen) : ServeRequest("GET", path)
    /\ UNCHANGED <<routerVars, added, calls, response, ignoreTrailingSlash, header,
                   groups, routeObjs, namedRoutes, poolVars>>

NormalizeNext ==
    \/ NormalizeArrives
    \/ NextLoop
    \/ MethodNotAllowed
    \/ HandlerReturn
    \/ ServeFinish

SpecNormalize == ServeInit /\ [][NormalizeNext]_vars

----------------------------------------------------------------------------
(* Route groups and Route objects.  Group 0 is the router itself (the      *)
(* RouteGroup it embeds); groups[g] is the g-th group created by Group.    *)
(* routeObjs holds the Route objects in the order of their creation, a     *)
(* Route being referred to by its position.                                *)

RouteNames == {"n1", "n2"}

GroupPrefix(g) == IF g = 0 THEN <<>> ELSE groups[g].prefix
GroupHandlers(g) == IF g = 0 THEN handlers ELSE groups[g].handlers

\* the template form of a parameter token: the regular expression is removed
TemplateToken(tok) ==
    CASE tok = "<id>" -> "<id>"
      [] tok = "<n:\\d+>" -> "<n>"
      [] tok = "<:.*>" -> "<>"

\* strings.TrimRight(path, "*")
RECURSIVE TrimRight(_)
TrimRight(path) ==
    IF path # <<>> /\ path[Len(path)] = "*"
    THEN TrimRight(SubSeq(path, 1, Len(path) - 1))
    ELSE path

buildURLTemplate(path) ==
    LET p == TrimRight(path)
    IN  [k \in 1..Len(p) |-> IF IsMarker(p[k]) THEN TemplateToken(p[k]) ELSE p[k]]

\* RouteGroup.newRoute; listed is the place of the route in Router.routes
newRoute(g, method, path, listed) ==
    [group |-> g, method |-> method, path |-> path, name |-> "",
     template |-> buildURLTemplate(GroupPrefix(g) \o path),
     tags |-> <<>>, routes |-> <<>>, listed |-> listed]

\* the state a registration works on
Registry ==
    [stores |-> stores, maxParams |-> maxParams, routes |-> routes,
     added |-> added, routeObjs |-> routeObjs]

\* a wrong add: the handlers of the group are left out
groupAddBare(reg, g, method, path, hs) ==
    LET key == StoredPath(GroupPrefix(g) \o path)
        store == IF reg.stores[method] = NoStore THEN newStore ELSE reg.stores[method]
        r == storeAdd(store, key, Data(hs))
    IN  [stores |-> [reg.stores EXCEPT ![method] = r.store],
         maxParams |-> IF r.pn > reg.maxParams THEN r.pn ELSE reg.maxParams,
         routes |-> Append(reg.routes, [method |-> method, path |-> path]),
         added |-> Append(reg.added, [method |-> method, key |-> key,
                                      data |-> Data(hs), pn |-> r.pn]),
         routeObjs |-> Append(reg.routeObjs,
                              newRoute(g, method, path, Len(reg.routes) + 1))]

\* RouteGroup.add and the Router.addRoute it calls
groupAdd(reg, g, method, path, hs) ==
    LET hh == combineHandlers(GroupHandlers(g), hs)
        key == StoredPath(GroupPrefix(g) \o path)
        store == IF reg.stores[method] = NoStore THEN newStore ELSE reg.stores[method]
        r == storeAdd(store, key, Data(hh))
    IN  [stores |-> [reg.stores EXCEPT ![method] = r.store],
         maxParams |-> IF r.pn > reg.maxParams THEN r.pn ELSE reg.maxParams,
         routes |-> Append(reg.routes, [method |-> method, path |-> path]),
         added |-> Append(reg.added, [method |-> method, key |-> key,
                                      data |-> Data(hh), pn |-> r.pn]),
         routeObjs |-> Append(reg.routeObjs,
                              newRoute(g, method, path, Len(reg.routes) + 1))]

\* the loop of RouteGroup.To over the methods
RECURSIVE addEach(_, _, _, _, _)
addEach(reg, g, mm, path, hs) ==
    IF mm = <<>> THEN reg
    ELSE addEach(groupAdd(reg, g, Head(mm), path, hs), g, Tail(mm), path, hs)

\* strings.Split(methods, ","), the methods string given by its pieces
Split(methods) == SelectSeq(methods, LAMBDA t : t # ",")

\* RouteGroup.To: the registry after it, and the route it returns
groupTo(g, methods, path, hs) ==
    LET mm == Split(methods)
        n == Len(routeObjs)
    IN  IF Len(mm) = 1
        THEN [reg |-> groupAdd(Registry, g, methods[1], path, hs), route |-> n + 1]
        ELSE LET r == [newRoute(g, methods, path, 0)
                          EXCEPT !.routes = [k \in 1..Len(mm) |-> n + 1 + k]]
                 reg == [Registry EXCEPT !.routeObjs = Append(@, r)]
             IN  [reg |-> addEach(reg, g, mm, path, hs), route |-> n + 1]

\* a wrong Group: the given handlers are appended to the inherited ones
groupHandlersAppended(parent, hs) == GroupHandlers(parent) \o hs

\* RouteGroup.Group: the handlers of the new group
groupHandlers(parent, hs) == IF Len(hs) = 0 THEN GroupHandlers(parent) ELSE hs

\* RouteGroup.Group
GroupGroup(parent, prefix, hs) ==
    /\ groups' = Append(groups, [prefix |-> GroupPrefix(parent) \o prefix,
                                 handlers |-> groupHandlers(parent, hs)])
    /\ calls' = Append(calls, [op |-> "Group", g |-> parent, path |-> prefix, hs |-> hs])

\* a wrong Use: the groups share the list the handlers are appended to
GroupUseShared(g, hs) ==
    /\ groups' = [k \in 1..Len(groups) |-> [groups[k] EXCEPT !.handlers = @ \o hs]]
    /\ calls' = Append(calls, [op |-> "GroupUse", g |-> g, path |-> <<>>, hs |-> hs])

\* RouteGroup.Use on a group other than the router
GroupUse(g, hs) ==
    /\ groups' = [groups EXCEPT ![g].handlers = @ \o hs]
    /\ calls' = Append(calls, [op |-> "GroupUse", g |-> g, path |-> <<>>, hs |-> hs])

\* RouteGroup.To
GroupTo(g, methods, path, hs) ==
    LET t == groupTo(g, methods, path, hs)
    IN  /\ stores' = t.reg.stores
        /\ maxParams' = t.reg.maxParams
        /\ routes' = t.reg.routes
        /\ added' = t.reg.added
        /\ routeObjs' = t.reg.routeObjs
        /\ calls' = Append(calls, [op |-> "To", g |-> g, path |-> path, hs |-> hs,
                                   methods |-> Split(methods), route |-> t.route])

\* a wrong Tag: the tag stays on the composite route
tagsOfOwn(objs, k, v) == [objs EXCEPT ![k].tags = Append(@, v)]

\* Route.Tag
tagsOf(objs, k, v) ==
    IF Len(objs[k].routes) > 0
    THEN [j \in 1..Len(objs) |->
            IF \E i \in 1..Len(objs[k].routes) : objs[k].routes[i] = j
            THEN [objs[j] EXCEPT !.tags = Append(@, v)]
            ELSE objs[j]]
    ELSE [objs EXCEPT ![k].tags = Append(@, v)]

RouteTag(k, v) ==
    /\ routeObjs' = tagsOf(routeObjs, k, v)
    /\ calls' = Append(calls, [op |-> "Tag", g |-> 0, path |-> <<>>, hs |-> <<>>,
                               route |-> k, value |-> v])
    /\ UNCHANGED namedRoutes

\* a wrong Name: a name that is taken stays with the route that has it
RouteNameFirstWins(k, name) ==
    /\ routeObjs' = [routeObjs EXCEPT ![k].name = name]
    /\ namedRoutes' = IF namedRoutes[name] # 0 THEN namedRoutes
                      ELSE [namedRoutes EXCEPT ![name] = k]
    /\ calls' = Append(calls, [op |-> "Name", g |-> 0, path |-> <<>>, hs |-> <<>>,
                               route |-> k, value |-> name])

\* Route.Name
RouteName(k, name) ==
    /\ routeObjs' = [routeObjs EXCEPT ![k].name = name]
    /\ namedRoutes' = [namedRoutes EXCEPT ![name] = k]
    /\ calls' = Append(calls, [op |-> "Name", g |-> 0, path |-> <<>>, hs |-> <<>>,
                               route |-> k, value |-> name])

\* the arguments of the calls
GroupPrefixes == {<<>>, <<"/", "a">>}
GroupArgs == {<<>>, <<"g1">>}
GroupUseArgs == {<<"m1">>, <<"m2", "m3">>}
ToMethods == {<<"GET">>, <<"GET", ",", "POST">>}
ToPaths == {<<"/", "<id>">>, <<"/", "*">>}

GroupCreates ==
    /\ Len(calls) < MaxCalls
    /\ \E parent \in 0..Len(groups) : \E prefix \in GroupPrefixes : \E hs \in GroupArgs :
          GroupGroup(parent, prefix, hs)
    /\ UNCHANGED <<routerVars, added, found, requestVars,
                   ignoreTrailingSlash, request, header, routeObjs, namedRoutes, poolVars>>

GroupUses ==
    /\ Len(calls) < MaxCalls
    /\ \E g \in 1..Len(groups) : \E hs \in GroupUseArgs : GroupUse(g, hs)
    /\ UNCHANGED <<routerVars, added, found, requestVars,
                   ignoreTrailingSlash, request, header, routeObjs, namedRoutes, poolVars>>

RouterUses ==
    /\ Len(calls) < MaxCalls
    /\ \E hs \in GroupUseArgs : RouterUse(hs)
    /\ UNCHANGED <<added, requestVars, extraVars>>

GroupRegisters ==
    /\ Len(calls) < MaxCalls
    /\ \E g \in 0..Len(groups) : \E methods \in ToMethods : \E path \in ToPaths :
          GroupTo(g, methods, path, <<RouteHandler(Len(calls) + 1)>>)
    /\ UNCHANGED <<handlers, notFound, notFoundHandlers, found, requestVars,
                   ignoreTrailingSlash, request, header, groups, namedRoutes, poolVars>>

RouteNamed ==
    /\ Len(calls) < MaxCalls
    /\ \E k \in 1..Len(routeObjs) : \E name \in RouteNames : RouteName(k, name)
    /\ UNCHANGED <<routerVars, added, found, requestVars,
                   ignoreTrailingSlash, request, header, groups, poolVars>>

RouteTagged ==
    /\ Len(calls) < MaxCalls
    /\ \E k \in 1..Len(routeObjs) : RouteTag(k, "t1")
    /\ UNCHANGED <<routerVars, added, found, requestVars,
                   ignoreTrailingSlash, request, header, groups, poolVars>>

GroupNext ==
    \/ GroupCreates
    \/ GroupUses
    \/ RouterUses
    \/ GroupRegisters
    \/ RouteNamed
    \/ RouteTagged

SpecGroup == StoreInit /\ [][GroupNext]_vars

----------------------------------------------------------------------------
(* Route.URL and Context.URL.  A template is a sequence of characters and  *)
(* of whole parameter tokens; an argument is a string of characters.       *)

\* url.QueryEscape of one character
EscapeChar(ch) ==
    CASE ch = "/" -> <<"%", "2", "F">>
      [] ch = "," -> <<"%", "2", "C">>
      [] ch = "<" -> <<"%", "3", "C">>
      [] ch = ">" -> <<"%", "3", "E">>
      [] ch = " " -> <<"+">>
      [] OTHER -> <<ch>>

\* url.QueryEscape
RECURSIVE QueryEscape(_)
QueryEscape(s) ==
    IF s = <<>> THEN <<>> ELSE EscapeChar(Head(s)) \o QueryEscape(Tail(s))

\* fmt.Sprintf("<%v>", arg): the token of that name; a name that is the name
\* of no token of any template gives a text no template contains
Bracket(arg) ==
    CASE arg = <<"i", "d">> -> "<id>"
      [] arg = <<"n">> -> "<n>"
      [] arg = <<>> -> "<>"
      [] OTHER -> "<?>"

\* strings.Replace(s, name, value, -1)
RECURSIVE Replace(_, _, _)
Replace(s, name, value) ==
    IF s = <<>> THEN <<>>
    ELSE (IF Head(s) = name THEN value ELSE <<Head(s)>>) \o Replace(Tail(s), name, value)

\* the loop of Route.URL from its i-th argument on
RECURSIVE urlLoop(_, _, _)
urlLoop(s, pairs, i) ==
    IF i > Len(pairs) THEN s
    ELSE LET value == IF i < Len(pairs) THEN QueryEscape(pairs[i + 1]) ELSE <<>>
         IN  urlLoop(Replace(s, Bracket(pairs[i]), value), pairs, i + 1)

\* Route.URL
RouteURL(k, pairs) == urlLoop(routeObjs[k].template, pairs, 1)

\* Context.URL
ContextURL(name, pairs) ==
    LET k == namedRoutes[name]
        s == IF k # 0 THEN RouteURL(k, pairs) ELSE <<>>
    IN  calls' = Append(calls, [op |-> "URL", g |-> 0, path |-> <<>>, hs |-> <<>>,
                                route |-> k, value |-> name, pairs |-> pairs, url |-> s])

URLPaths ==
    { <<"/", "<id>", "/", "<n:\\d+>">>,
      <<"/", "<id>", "/", "<:.*>", "/", "<id>">>,
      <<"/", "a", "/", "<n:\\d+>", "/", "*">> }

URLArgs == { <<"i", "d">>, <<"n">>, <<>>, <<"a", "/">> }

RECURSIVE ArgLists(_)
ArgLists(n) ==
    IF n = 0 THEN {<<>>}
    ELSE ArgLists(n - 1) \cup
         {Append(l, a) : l \in {m \in ArgLists(n - 1) : Len(m) = n - 1}, a \in URLArgs}

URLRegisters ==
    /\ routes = <<>>
    /\ \E methods \in ToMethods : \E path \in URLPaths :
          GroupTo(0, methods, path, <<RouteHandler(1)>>)
    /\ UNCHANGED <<handlers, notFound, notFoundHandlers, found, requestVars,
                   ignoreTrailingSlash, request, header, groups, namedRoutes, poolVars>>

URLNames ==
    /\ \A name \in RouteNames : namedRoutes[name] = 0
    /\ \A i \in 1..Len(calls) : calls[i].op # "URL"
    /\ \E k \in 1..Len(routeObjs) : \E name \in RouteNames : RouteName(k, name)
    /\ UNCHANGED <<routerVars, added, found, requestVars,
                   ignoreTrailingSlash, request, header, groups, poolVars>>

URLBuilds ==
    /\ Len(routes) > 0
    /\ \A i \in 1..Len(calls) : calls[i].op # "URL"
    /\ \E name \in RouteNames : \E pairs \in ArgLists(MaxArgs) : ContextURL(name, pairs)
    /\ UNCHANGED <<routerVars, added, found, requestVars, extraVars>>

URLNext ==
    \/ URLRegisters
    \/ URLNames
    \/ URLBuilds

SpecURL == StoreInit /\ [][URLNext]_vars

----------------------------------------------------------------------------
(* Context.Param and Context.SetParam.                                     *)

\* Context.Param: the value at the place of the first occurrence of the name
Param(cx, name) ==
    IF \E i \in 1..Len(cx.pnames) : cx.pnames[i] = name
    THEN cx.pvalues[CHOOSE i \in 1..Len(cx.pnames) :
                        /\ cx.pnames[i] = name
                        /\ \A j \in 1..(i - 1) : cx.pnames[j] # name]
    ELSE <<>>

\* Context.SetParam
SetParam(cx, name, value) ==
    IF \E i \in 1..Len(cx.pnames) : cx.pnames[i] = name
    THEN LET first == CHOOSE i \in 1..Len(cx.pnames) :
                          /\ cx.pnames[i] = name
                          /\ \A j \in 1..(i - 1) : cx.pnames[j] # name
         IN  [cx EXCEPT !.pvalues[first] = value]
    ELSE [cx EXCEPT !.pnames = Append(@, name), !.pvalues = Append(@, value)]

ParamNames == {"id", "x"}
ParamValues == {<<"v">>, <<"w">>}
ParamMethods == {"GET", "POST"}
ParamPaths == {<<"/", "a">>, <<"/", "1">>, <<"/", "a", "/">>}

ParamAddRoute ==
    /\ request.method = ""
    /\ calls = <<>>
    /\ Len(routes) < MaxAdds
    /\ \E method \in ParamMethods : \E path \in ServePatterns :
          AddRoute(method, path, <<RouteHandler(Len(routes) + 1)>>)
    /\ UNCHANGED <<calls, requestVars, extraVars>>

ParamArrives ==
    /\ request.method = ""
    /\ calls = <<>>
    /\ \E path \in ParamPaths : ServeRequest("GET", path)
    /\ UNCHANGED <<routerVars, added, calls, response, ignoreTrailingSlash, header,
                   groups, routeObjs, namedRoutes, poolVars>>

\* a handler, or a test on a Context of its own, calls SetParam
ParamSets ==
    /\ Len(calls) < MaxCalls
    /\ \E name \in ParamNames : \E value \in ParamValues :
          /\ c' = SetParam(c, name, value)
          /\ calls' = Append(calls, [op |-> "SetParam", name |-> name, value |-> value])
    /\ UNCHANGED <<routerVars, added, found, stack, response, outcome, extraVars>>

ParamNext ==
    \/ ParamAddRoute
    \/ ParamArrives
    \/ ParamSets

SpecParam == ServeInit /\ [][ParamNext]_vars

----------------------------------------------------------------------------
(* fault.Recovery.  The handler is the program c.Next() under a deferred   *)
(* recover (PanicHandler), then the rendering of the error that came back. *)
(* A handler panics with a value that is no error, or with an HTTPError.   *)

Recovery == Handler(<<"next", "recover">>, "nil")

\* the handlers that may follow Recovery
RecoverKinds ==
    { Handler(<<>>, "nil"),                   \* returns nil
      Handler(<<>>, "err"),                   \* returns an error
      Handler(<<>>, "httperr"),               \* returns an HTTPError
      Handler(<<"panic">>, "nil"),            \* panic("xyz")
      Handler(<<"panichttp">>, "nil"),        \* panic(NewHTTPError(400, "123"))
      Handler(<<"next">>, "last"),            \* return c.Next()
      Handler(<<"next">>, "nil"),             \* c.Next(); return nil
      Handler(<<"next">>, "err") }            \* c.Next(); return an error of its own

RecoverLists ==
    LET tails == UNION {[1..n -> RecoverKinds] : n \in 0..MaxHandlers}
    IN  tails \cup {<<Recovery>> \o hs : hs \in tails}

\* PanicHandler: the error made of the recovered value
Recovered(op) ==
    IF op = "panichttp"
    THEN HTTPError(StatusBadRequest, <<"123">>)
    ELSE OtherError(<<"xyz">>)

\* a wrong writeError: the status of an HTTPError is not used
writeErrorAlways500(err) == [status |-> StatusInternalServerError, body |-> err.text]

\* writeError: the status and the body written to the response
writeError(err) ==
    IF err.http
    THEN [status |-> err.status, body |-> err.text]
    ELSE [status |-> StatusInternalServerError, body |-> err.text]

\* the frames of stk that are calls of Recovery waiting in Next
Recovering(stk) ==
    {j \in 1..(Len(stk) - 1) :
        /\ stk[j].f = "handler"
        /\ c.handlers[stk[j].i + 1] = Recovery
        /\ stk[j].pc = 2}

Highest(S) == CHOOSE j \in S : \A k \in S : k <= j

\* the running handler panics: the stack unwinds to the innermost Recovery,
\* whose call of PanicHandler returns the recovered error; with no Recovery
\* the panic leaves ServeHTTP
HandlerPanics ==
    /\ outcome.pc = "running"
    /\ stack # <<>>
    /\ Top(stack).f = "handler"
    /\ LET fr == Top(stack)
           h == c.handlers[fr.i + 1]
       IN  /\ fr.pc <= Len(h.ops)
           /\ h.ops[fr.pc] \in {"panic", "panichttp"}
           /\ LET err == Recovered(h.ops[fr.pc])
                  log == Append(outcome.log, Event("panic", fr.i, err))
              IN  IF Recovering(stack) # {}
                  THEN LET j == Highest(Recovering(stack))
                       IN  /\ stack' = [SubSeq(stack, 1, j) EXCEPT ![j].last = err]
                           /\ outcome' = [outcome EXCEPT
                                 !.log = Append(log, Event("resume", stack[j].i, err))]
                  ELSE /\ stack' = <<>>
                       /\ outcome' = [pc |-> "panicked", err |-> err, log |-> log]
    /\ UNCHANGED <<routerVars, added, calls, found, c, response>>
    /\ UNCHANGED extraVars

\* Recovery after PanicHandler returned: an error is written and the
\* pipeline aborted
RecoveryHandles ==
    /\ outcome.pc = "running"
    /\ stack # <<>>
    /\ Top(stack).f = "handler"
    /\ LET fr == Top(stack)
           h == c.handlers[fr.i + 1]
       IN  /\ fr.pc <= Len(h.ops)
           /\ h.ops[fr.pc] = "recover"
           /\ stack' = [stack EXCEPT ![Len(stack)].pc = fr.pc + 1]
           /\ IF fr.last # NoError
              THEN /\ response' = Append(response, writeError(fr.last))
                   /\ c' = [c EXCEPT !.index = abortIndex(c)]
                   /\ outcome' = [outcome EXCEPT
                         !.log = Append(@, Event("abort", fr.i, fr.last))]
              ELSE UNCHANGED <<response, c, outcome>>
    /\ UNCHANGED <<routerVars, added, calls, found>>
    /\ UNCHANGED extraVars

RecoverInit ==
    /\ RouterInit
    /\ added = <<>>
    /\ calls = <<>>
    /\ found = NoFind
    /\ c \in {NewContext(hs) : hs \in RecoverLists}
    /\ stack = <<>>
    /\ response = <<>>
    /\ outcome = Idle
    /\ ExtraInit

RecoverNext ==
    \/ ServeNext
    \/ NextLoop
    \/ HandlerStep
    \/ HandlerPanics
    \/ RecoveryHandles
    \/ HandlerReturn
    \/ ServeFinish

SpecRecover == RecoverInit /\ [][RecoverNext]_vars

----------------------------------------------------------------------------
(* Concurrent calls of ServeHTTP on one Router.  Each call takes a Context *)
(* from the pool, initialises it, looks up the handlers with the buffer of *)
(* the Context, runs them, and puts the Context back.  A route handler     *)
(* returns nil, returns nil after having used the Context (Set,            *)
(* SetDataWriter, SetParam), returns an error, or panics.                  *)

\* pool.New: a Context whose buffer has the length of maxParams
poolNew == [request |-> 0, index |-> 0, handlers |-> <<>>, pnames |-> <<>>,
            pvalues |-> MakeValues(maxParams), data |-> {}, writer |-> "default"]

\* a wrong pool: Get hands out a Context without taking it from the pool
poolAfterGetKeeps(free, k) == free

\* sync.Pool.Get: the Context handed out is no longer in the pool
poolAfterGet(free, k) == free \ {k}

\* a wrong Put: the Context is dropped
poolAfterPutDrops(free, k) == free

\* sync.Pool.Put
poolAfterPut(free, k) == free \cup {k}

InFlight(r) == reqs[r].pc \notin {"idle", "done", "panicked"}

PoolRoutes == { <<"GET", <<"/", "a">>>>, <<"GET", <<"/", "<id>">>>>,
                <<"POST", <<"/", "<id>">>>> }
PoolPaths == {<<"/", "a">>, <<"/", "1">>}
HandlerOutcomes == {"nil", "used", "err", "panic"}

\* a value no lookup writes: it marks the places past the end of a buffer
PastEnd == <<"?">>

\* Context.Get
ContextGet(cx, name) ==
    IF \E p \in cx.data : p[1] = name
    THEN (CHOOSE p \in cx.data : p[1] = name)[2]
    ELSE "nil"

\* Context.Set
ContextSet(cx, name, value) ==
    [cx EXCEPT !.data = {p \in @ : p[1] # name} \cup {<<name, value>>}]

\* a wrong init: the data items are kept
contextInitKeepsData(cx, r) == [cx EXCEPT !.request = r, !.index = -1, !.writer = "default"]

\* Context.init
contextInit(cx, r) ==
    [cx EXCEPT !.request = r, !.data = {}, !.index = -1, !.writer = "default"]

\* what a call of ServeHTTP knows of the Context it holds
Holding(rq, cx, pc) ==
    [rq EXCEPT !.pc = pc, !.index = cx.index, !.handlers = cx.handlers,
               !.pnames = cx.pnames, !.pvalues = cx.pvalues]

\* routes are registered before the requests are served
PoolAddRoute ==
    /\ \A r \in 1..MaxRequests : reqs[r].pc = "idle"
    /\ Len(routes) < MaxAdds
    /\ \E rt \in PoolRoutes :
          AddRoute(rt[1], rt[2], <<RouteHandler(Len(routes) + 1)>>)
    /\ UNCHANGED <<calls, requestVars, ignoreTrailingSlash, request, header,
                   groups, routeObjs, namedRoutes, poolVars>>

\* with a route that the paths of the requests match in part only
ReuseRoutes == PoolRoutes \cup { <<"GET", <<"/", "<id>", "/", "a">>>> }

\* routes are registered while no request is being served
ReuseAddRoute ==
    /\ \A r \in 1..MaxRequests : ~InFlight(r)
    /\ Len(routes) < MaxAdds
    /\ \E rt \in ReuseRoutes :
          AddRoute(rt[1], rt[2], <<RouteHandler(Len(routes) + 1)>>)
    /\ UNCHANGED <<calls, requestVars, ignoreTrailingSlash, request, header,
                   groups, routeObjs, namedRoutes, poolVars>>

\* c := r.pool.Get().(*Context): a Context of the pool, or a new one
PoolGet(r) ==
    /\ reqs[r].pc = "idle"
    /\ \E path \in PoolPaths :
          \/ \E k \in pool :
                /\ pool' = poolAfterGet(pool, k)
                /\ contexts' = contexts
                /\ reqs' = [reqs EXCEPT ![r] = [@ EXCEPT !.pc = "got", !.ctx = k,
                                                          !.path = path,
                                                          !.buffer = Len(contexts[k].pvalues)]]
          \/ /\ Len(contexts) < MaxRequests
             /\ contexts' = Append(contexts, poolNew)
             /\ pool' = pool
             /\ reqs' = [reqs EXCEPT ![r] = [@ EXCEPT !.pc = "got",
                                                       !.ctx = Len(contexts) + 1,
                                                       !.path = path,
                                                       !.buffer = maxParams]]

\* c.init(res, req)
PoolContextInit(r) ==
    /\ reqs[r].pc = "got"
    /\ contexts' = [contexts EXCEPT ![reqs[r].ctx] = contextInit(@, r)]
    /\ reqs' = [reqs EXCEPT ![r].pc = "inited"]
    /\ pool' = pool

\* the buffer buf followed by places past its end, as many as a lookup may
\* ask for
Padded(buf) ==
    [i \in 1..(IF maxParams > Len(buf) THEN maxParams ELSE Len(buf)) |->
        IF i <= Len(buf) THEN buf[i] ELSE PastEnd]

\* what the lookup f leaves of a buffer of length n, and whether it wrote a
\* value past the end of the buffer
lookupOn(f, n) ==
    [handlers |-> f.handlers, pnames |-> f.pnames,
     pvalues |-> SubSeq(f.pvalues, 1, n),
     overflow |-> \E i \in (n + 1)..Len(f.pvalues) : f.pvalues[i] # PastEnd]

\* the lookup of ServeHTTP with the buffer buf
lookup(buf, path) ==
    lookupOn(find(stores, notFoundHandlers, "GET",
                  normalizeRequestPath(ignoreTrailingSlash, path), Padded(buf)),
             Len(buf))

\* a wrong assignment: a request that matches no parameter keeps the names
\* the Context had
foundKeepsNames(cx, f) ==
    [cx EXCEPT !.handlers = f.handlers,
               !.pnames = IF f.pnames = <<>> THEN @ ELSE f.pnames,
               !.pvalues = f.pvalues]

\* c.handlers, c.pnames = r.find(...), which writes c.pvalues
foundIn(cx, f) ==
    [cx EXCEPT !.handlers = f.handlers, !.pnames = f.pnames, !.pvalues = f.pvalues]

\* request r goes on with the Context cx, or is left by the panic of an
\* index past the end of the buffer
PoolFound(r, cx, overflow) ==
    IF overflow
    THEN /\ contexts' = contexts
         /\ reqs' = [reqs EXCEPT ![r].pc = "panicked"]
    ELSE /\ contexts' = [contexts EXCEPT ![reqs[r].ctx] = cx]
         /\ reqs' = [reqs EXCEPT ![r] = Holding(@, cx, "running")]

\* the lookup of ServeHTTP, on the Context the request holds
PoolLookup(r, f) == PoolFound(r, foundIn(contexts[reqs[r].ctx], f), f.overflow)

\* c.handlers, c.pnames = r.find(req.Method, path, c.pvalues); an index past
\* the end of the buffer is a panic, which leaves ServeHTTP
PoolFind(r) ==
    /\ reqs[r].pc = "inited"
    /\ PoolLookup(r, lookup(contexts[reqs[r].ctx].pvalues, reqs[r].path))
    /\ pool' = pool

\* the Context after a route handler that uses it
Used(cx) ==
    SetParam([ContextSet(cx, "k", "v") EXCEPT !.writer = "custom"], "x", <<"v">>)

\* c.Next(): c.index++, and the handler at c.index runs when there is one;
\* no handler of these requests calls Next itself
PoolNext(r) ==
    /\ reqs[r].pc = "running"
    /\ LET k == reqs[r].ctx
           i == contexts[k].index + 1
           cx == [contexts[k] EXCEPT !.index = i]
           n == Len(cx.handlers)
       IN  IF i >= n
           THEN /\ contexts' = [contexts EXCEPT ![k] = cx]
                /\ reqs' = [reqs EXCEPT ![r] = Holding(@, cx, "returned")]
           ELSE IF cx.handlers[i + 1] = "MethodNotAllowedHandler"
           THEN LET methods == findAllowedMethods(stores, maxParams, reqs[r].path)
                    ab == IF methods = {} THEN cx ELSE [cx EXCEPT !.index = abortIndex(cx)]
                IN  /\ contexts' = [contexts EXCEPT ![k] = ab]
                    /\ reqs' = [reqs EXCEPT ![r] = Holding(@, ab, "running")]
           ELSE IF cx.handlers[i + 1] = "NotFoundHandler"
           THEN /\ contexts' = [contexts EXCEPT ![k] = cx]
                /\ reqs' = [reqs EXCEPT ![r] = Holding(@, cx, "returned")]
           ELSE \E res \in HandlerOutcomes :
                   LET after == IF res = "used" THEN Used(cx) ELSE cx
                   IN  /\ contexts' = [contexts EXCEPT ![k] = after]
                       /\ reqs' = [reqs EXCEPT ![r] =
                              Holding(@, after,
                                      CASE res = "err" -> "returned"
                                        [] res = "panic" -> "panicked"
                                        [] OTHER -> "running")]
    /\ pool' = pool

\* r.pool.Put(c), the last statement of ServeHTTP
PoolPut(r) ==
    /\ reqs[r].pc = "returned"
    /\ pool' = poolAfterPut(pool, reqs[r].ctx)
    /\ reqs' = [reqs EXCEPT ![r].pc = "done"]
    /\ contexts' = contexts

\* the requests are numbered in the order in which they arrive
PoolGets ==
    /\ \E r \in 1..MaxRequests :
          /\ \A q \in 1..(r - 1) : reqs[q].pc # "idle"
          /\ PoolGet(r)
    /\ UNCHANGED <<routerVars, added, calls, found, requestVars, ignoreTrailingSlash,
                   request, header, groups, routeObjs, namedRoutes>>

PoolInits ==
    /\ \E r \in 1..MaxRequests : PoolContextInit(r)
    /\ UNCHANGED <<routerVars, added, calls, found, requestVars, ignoreTrailingSlash,
                   request, header, groups, routeObjs, namedRoutes>>

\* a wrong lookup: it counts the parameters of the request into maxParams
PoolFindsWriting ==
    /\ \E r \in 1..MaxRequests : PoolFind(r)
    /\ maxParams' = maxParams + 1
    /\ UNCHANGED <<stores, routes, handlers, notFound, notFoundHandlers,
                   added, calls, found, requestVars, ignoreTrailingSlash,
                   request, header, groups, routeObjs, namedRoutes>>

PoolFinds ==
    /\ \E r \in 1..MaxRequests : PoolFind(r)
    /\ UNCHANGED <<routerVars, added, calls, found, requestVars, ignoreTrailingSlash,
                   request, header, groups, routeObjs, namedRoutes>>

PoolRuns ==
    /\ \E r \in 1..MaxRequests : PoolNext(r)
    /\ UNCHANGED <<routerVars, added, calls, found, requestVars, ignoreTrailingSlash,
                   request, header, groups, routeObjs, namedRoutes>>

PoolPuts ==
    /\ \E r \in 1..MaxRequests : PoolPut(r)
    /\ UNCHANGED <<routerVars, added, calls, found, requestVars, ignoreTrailingSlash,
                   request, header, groups, routeObjs, namedRoutes>>

\* Router.Find, called while requests are served
PoolRouterFind ==
    /\ ~found.called
    /\ \E r \in 1..MaxRequests : reqs[r].pc = "running"
    /\ Find("GET", <<"/", "1">>)
    /\ UNCHANGED <<routerVars, added, calls, requestVars>>
    /\ UNCHANGED extraVars

PoolNextStep ==
    \/ PoolAddRoute
    \/ PoolGets
    \/ PoolInits
    \/ PoolFinds
    \/ PoolRuns
    \/ PoolPuts
    \/ PoolRouterFind

SpecPool == StoreInit /\ [][PoolNextStep]_vars

\* one request at a time, routes being registered between the requests
ReuseGets ==
    /\ \A r \in 1..MaxRequests : ~InFlight(r)
    /\ PoolGets

ReuseNextStep ==
    \/ ReuseAddRoute
    \/ ReuseGets
    \/ PoolInits
    \/ PoolFinds
    \/ PoolRuns
    \/ PoolPuts

SpecReuse == StoreInit /\ [][ReuseNextStep]_vars

----------------------------------------------------------------------------
(* What it means for a pattern to match a path, read off the pattern alone *)
(* (no tree): tokens are matched left to right; a literal matches itself,  *)
(* <name> takes the characters up to the next "/", <name:\d+> the longest  *)
(* non-empty run of digits, and <:.*> the rest of the path.                *)

RECURSIVE MatchFrom(_, _, _)
MatchFrom(pat, key, vals) ==
    IF pat = <<>>
    THEN [ok |-> key = <<>>, values |-> vals]
    ELSE LET tok == Head(pat)
             m == CASE tok = "<id>" -> SegmentRun(key)
                    [] tok = "<n:\\d+>" -> DigitRun(key)
                    [] tok = "<:.*>" -> Len(key)
                    [] OTHER -> 1
         IN  IF IsMarker(tok)
             THEN IF tok = "<n:\\d+>" /\ m = 0
                  THEN [ok |-> FALSE, values |-> vals]
                  ELSE MatchFrom(Tail(pat), Drop(key, m), Append(vals, SubSeq(key, 1, m)))
             ELSE IF key # <<>> /\ Head(key) = tok
                  THEN MatchFrom(Tail(pat), Tail(key), vals)
                  ELSE [ok |-> FALSE, values |-> vals]

PatternMatch(pat, path) == MatchFrom(pat, path, <<>>)

\* the names of the markers of a pattern, in pattern order
MarkerNames(pat) ==
    LET F[i \in 0..Len(pat)] ==
            IF i = 0 THEN <<>>
            ELSE IF IsMarker(pat[i]) THEN Append(F[i - 1], MarkerName(pat[i]))
            ELSE F[i - 1]
    IN  F[Len(pat)]

\* the Add calls (by position) whose pattern matches the path of the last lookup
Matching ==
    {i \in 1..Len(added) :
        added[i].method = found.method /\ PatternMatch(added[i].key, found.path).ok}

FirstOf(S) == CHOOSE i \in S : \A j \in S : i <= j

\* 0 literal, 1 parameter, 2 wildcard
KindRank(tok) == IF tok = "<:.*>" THEN 2 ELSE IF IsMarker(tok) THEN 1 ELSE 0

\* pattern p has the preferred kind of token at the first position where p and q differ
PreferredByKind(p, q) ==
    \E k \in 1..Min(Len(p), Len(q)) :
        /\ \A i \in 1..(k - 1) : p[i] = q[i]
        /\ p[k] # q[k]
        /\ KindRank(p[k]) < KindRank(q[k])

\* C1: Get returns the data of the matching pattern that was added first, and
\* no data (the router then falls back to notFoundHandlers) when none matches.
C1_FirstAddedWins ==
    found.called =>
        IF Matching = {}
        THEN found.handlers = notFoundHandlers /\ found.pnames = <<>>
        ELSE found.handlers = added[FirstOf(Matching)].data.h

\* a lookup that two registered patterns match, answered with the older one
C1_Witness ==
    /\ found.called
    /\ \E i, j \in Matching : i < j /\ found.handlers = added[i].data.h

\* C2 as claimed: among the matching patterns the one with the preferred kind of
\* token (literal, then parameter, then wildcard) at the first difference wins,
\* and insertion order decides only between patterns that kind does not separate.
C2_KindBeatsOrder ==
    found.called =>
        \A i \in Matching :
            (\A j \in Matching \ {i} :
                LET p == added[i].key
                    q == added[j].key
                IN  PreferredByKind(p, q) \/ (~PreferredByKind(q, p) /\ i < j))
            => found.handlers = added[i].data.h

\* C2 amended: insertion order decides among the matching patterns whatever
\* their kinds: a pattern is never returned when a pattern added before it
\* matches too, also when the later one has a literal where the earlier one has
\* a parameter or a wildcard.
C2_OrderBeatsKind ==
    found.called =>
        \A i, j \in Matching :
            i < j => found.handlers # added[j].data.h

\* a lookup matched by a parameter pattern and by a literal pattern added after
\* it, answered with the parameter pattern
C2_Witness ==
    /\ found.called
    /\ \E i, j \in Matching :
          /\ i < j
          /\ PreferredByKind(added[j].key, added[i].key)
          /\ found.handlers = added[i].data.h

ParamFree(key) == \A i \in 1..Len(key) : ~IsMarker(key[i])

\* the Add calls that registered the path of the last lookup as their pattern
AddsOfPath ==
    {i \in 1..Len(added) : added[i].method = found.method /\ added[i].key = found.path}

\* C3 as claimed: Get(p) of a registered parameter-free pattern p returns the
\* data of the first Add(p, _), after any sequence of Add calls.
C3_GetReturnsFirstAddOfPattern ==
    (found.called /\ AddsOfPath # {} /\ ParamFree(found.path))
        => found.handlers = added[FirstOf(AddsOfPath)].data.h

\* the precondition the code needs: no pattern added before the first Add(p, _)
\* matches p as well
NoEarlierMatch == FirstOf(Matching) = FirstOf(AddsOfPath)

C3_GetKeepsFirstAdd ==
    (found.called /\ AddsOfPath # {} /\ ParamFree(found.path) /\ NoEarlierMatch)
        => found.handlers = added[FirstOf(AddsOfPath)].data.h

\* an Add of a pattern already registered under the method leaves every node of
\* the store as it was, its data and order included
C3_DuplicateAddFrame ==
    (/\ Len(added') = Len(added) + 1
     /\ \E i \in 1..Len(added) :
           /\ added[i].method = added'[Len(added')].method
           /\ added[i].key = added'[Len(added')].key)
        => stores'[added'[Len(added')].method].nodes
               = stores[added'[Len(added')].method].nodes

\* C3 amended: adding a pattern that is already registered does not override it:
\* the later Add leaves the nodes of the store (data and order) unchanged, and
\* Get(p) of a parameter-free pattern p keeps returning the data of the first
\* Add(p, _) unless a pattern added before that Add matches p too.
C3_DuplicateAddKeepsFirst ==
    [](C3_GetKeepsFirstAdd) /\ [][C3_DuplicateAddFrame]_vars

\* a parameter-free pattern added twice and then looked up
C3_Witness ==
    /\ found.called
    /\ ParamFree(found.path)
    /\ Cardinality(AddsOfPath) >= 2
    /\ found.handlers = added[FirstOf(AddsOfPath)].data.h

\* C4: when Get matches a pattern, pnames are the names of its markers in
\* pattern order and pvalues[i] is the substring its i-th marker captured.
C4_PositionalValues ==
    found.called =>
        \A i \in 1..Len(added) :
            (added[i].method = found.method /\ found.handlers = added[i].data.h)
                => LET m == PatternMatch(added[i].key, found.path)
                   IN  /\ m.ok
                       /\ found.pnames = MarkerNames(added[i].key)
                       /\ Len(found.pvalues) >= Len(found.pnames)
                       /\ \A k \in 1..Len(found.pnames) : found.pvalues[k] = m.values[k]

\* a match with two parameters, found after another matching pattern had
\* captured a different value in the first slot
C4_Witness ==
    /\ found.called
    /\ Len(found.pnames) = 2
    /\ \E i, j \in Matching :
          /\ found.handlers = added[i].data.h
          /\ j # i
          /\ PatternMatch(added[j].key, found.path).values # <<>>
          /\ PatternMatch(added[j].key, found.path).values[1] # found.pvalues[1]

----------------------------------------------------------------------------
(* The handler pipeline, read off the trace of a request.                  *)

Log == outcome.log
NumHandlers == Len(c.handlers)

\* the outermost call of Next has returned
Returned == outcome.pc \in {"returned", "done"}

IsStart(p) == Log[p].e = "start"
IsAbort(p) == Log[p].e = "abort"
IsErrReturn(p) == Log[p].e = "return" /\ Log[p].err # NoError
IsNilReturn(p) == Log[p].e = "return" /\ Log[p].err = NoError

\* the handlers invoked so far, in the order of their invocation
Starts ==
    LET F[p \in 0..Len(Log)] ==
            IF p = 0 THEN <<>>
            ELSE IF IsStart(p) THEN Append(F[p - 1], Log[p].i)
            ELSE F[p - 1]
    IN  F[Len(Log)]

\* no handler of the list calls Next or Abort
CallsNothing == \A k \in 1..NumHandlers : c.handlers[k].ops = <<>>

\* the positions (from 1) of the handlers that return an error of their own
Failing == {k \in 1..NumHandlers : c.handlers[k].ret \in {"err", "notfound"}}

\* C5: when no handler calls Next or Abort, Next invokes the handlers in list
\* order from index 0, invokes none after the first one that returns an error,
\* and returns exactly that error; with no failing handler it invokes all of
\* them and returns nil.
C5_NextRunsInOrder ==
    CallsNothing =>
        LET stop == IF Failing = {} THEN NumHandlers ELSE FirstOf(Failing)
        IN  /\ Len(Starts) <= stop
            /\ \A k \in 1..Len(Starts) : Starts[k] = k - 1
            /\ Returned =>
                  /\ Len(Starts) = stop
                  /\ outcome.err = IF Failing = {} THEN NoError
                                   ELSE ReturnValue(c.handlers[stop], stop - 1, NoError)

C5_Witness ==
    /\ Returned
    /\ CallsNothing
    /\ NumHandlers = 3
    /\ Failing = {2, 3}
    /\ Starts = <<0, 1>>
    /\ outcome.err = OtherError(<<"error", 1>>)

\* the handler that called Abort at p returns nil (as far as the trace tells)
AbortReturnsNil(p) ==
    /\ IsAbort(p)
    /\ \A t \in (p + 1)..Len(Log) :
          (Log[t].e = "return" /\ Log[t].i = Log[p].i) => Log[t].err = NoError

\* the handlers waiting in a call of Next at position p of the trace
Waiting(p) ==
    {i \in 0..(NumHandlers - 1) :
        \E q \in 1..(p - 1) :
            /\ Log[q].e = "next" /\ Log[q].i = i
            /\ \A r \in (q + 1)..(p - 1) : ~(Log[r].e = "resume" /\ Log[r].i = i)}

\* after a call of Abort no handler is invoked
NoStartAfterAbort ==
    \A a \in 1..Len(Log) : \A q \in (a + 1)..Len(Log) : IsAbort(a) => ~IsStart(q)

\* the handlers waiting in Next when Abort is called resume and return
WaitingResume ==
    Returned =>
        \A a \in 1..Len(Log) :
            AbortReturnsNil(a) =>
                \A i \in Waiting(a) :
                    \E r \in (a + 1)..Len(Log) :
                        /\ Log[r].e = "resume" /\ Log[r].i = i
                        /\ \E t \in (r + 1)..Len(Log) : Log[t].e = "return" /\ Log[t].i = i

\* C6 as stated: after a handler calls Abort and returns nil no handler that has
\* not started is invoked, the handlers waiting in Next resume and run their
\* post-Next code, and the outermost Next returns nil.
C6_AbortReturnsNil ==
    /\ NoStartAfterAbort
    /\ WaitingResume
    /\ Returned => \A a \in 1..Len(Log) : AbortReturnsNil(a) => outcome.err = NoError

\* C6: after a handler calls Abort and returns nil no handler that has not
\* started is invoked, the handlers waiting in Next resume and run their
\* post-Next code, and the outermost Next returns nil unless a handler returns
\* a non-nil error after the call of Abort.
C6_AbortStopsPipeline ==
    /\ NoStartAfterAbort
    /\ WaitingResume
    /\ Returned =>
          \A a \in 1..Len(Log) :
              (AbortReturnsNil(a) /\ \A t \in (a + 1)..Len(Log) : ~IsErrReturn(t))
                  => outcome.err = NoError

C6_Witness ==
    /\ Returned
    /\ outcome.err = NoError
    /\ \E a \in 1..Len(Log) :
          /\ AbortReturnsNil(a)
          /\ Waiting(a) # {}
          /\ Log[a].i \notin Waiting(a)
          /\ Log[a].i + 1 < NumHandlers
          /\ \E t \in (a + 1)..Len(Log) : Log[t].e = "return" /\ Log[t].i \in Waiting(a)

\* handler j neither returns an error of its own nor calls Abort
Quiet(j) ==
    /\ c.handlers[j + 1].ret \in {"nil", "last"}
    /\ \A k \in 1..Len(c.handlers[j + 1].ops) : c.handlers[j + 1].ops[k] # "abort"

\* handler i calls Next at position p, and no later handler fails or aborts
CallsNextQuietly(p) ==
    /\ Log[p].e = "next"
    /\ Log[p].i >= 0
    /\ \A j \in (Log[p].i + 1)..(NumHandlers - 1) : Quiet(j)

\* the call of Next made at position p has returned with every later handler
\* run to completion, and no handler was invoked twice or out of order
LaterHandlersRanOnce(p) ==
    /\ \A r \in (p + 1)..Len(Log) :
          (Log[r].e = "resume" /\ Log[r].i = Log[p].i) =>
              \A j \in (Log[p].i + 1)..(NumHandlers - 1) :
                  \E s \in 1..(r - 1) : \E t \in (s + 1)..(r - 1) :
                      /\ IsStart(s) /\ Log[s].i = j
                      /\ Log[t].e = "return" /\ Log[t].i = j
    /\ \A s \in 1..Len(Starts) : \A t \in (s + 1)..Len(Starts) : Starts[s] < Starts[t]

\* C7 as stated: when handler i calls Next and no later handler fails or
\* aborts, the handlers i+1..n-1 run to completion in order before Next
\* returns to handler i, and none of them runs a second time.
C7_NextRunsLaterHandlers ==
    \A p \in 1..Len(Log) : CallsNextQuietly(p) => LaterHandlersRanOnce(p)

\* C7: when handler i calls Next without a call of Abort before it, and no
\* later handler fails or aborts, the handlers i+1..n-1 run to completion in
\* order before Next returns to handler i, and none of them runs a second time.
C7_NextRunsLaterHandlersUnlessAborted ==
    \A p \in 1..Len(Log) :
        (CallsNextQuietly(p) /\ \A a \in 1..(p - 1) : ~IsAbort(a))
            => LaterHandlersRanOnce(p)

C7_Witness ==
    /\ Returned
    /\ NumHandlers = 3
    /\ \A a \in 1..Len(Log) : ~IsAbort(a)
    /\ \E p \in 1..Len(Log) : CallsNextQuietly(p) /\ Log[p].i = 0
    /\ \E p \in 1..Len(Log) : CallsNextQuietly(p) /\ Log[p].i = 1
    /\ \E r \in 1..Len(Log) : Log[r].e = "resume" /\ Log[r].i = 0
    /\ Starts = <<0, 1, 2>>

\* C8 as stated: once a handler has returned a non-nil error no handler is
\* invoked any more, whatever the handlers do.
C8_ErrorSkipsLaterHandlers ==
    \A p \in 1..Len(Log) : \A q \in (p + 1)..Len(Log) : IsErrReturn(p) => ~IsStart(q)

\* a handler resumed from Next is about to let later handlers run: it calls
\* Next again, or it returns nil and Abort has not been called
Reopens(r) ==
    \/ Log[r].e = "next"
    \/ IsNilReturn(r) /\ \A a \in 1..(r - 1) : ~IsAbort(a)

\* C8: once a handler has returned a non-nil error no handler is invoked any
\* more, unless a handler waiting in Next calls Next again or returns nil
\* without a call of Abort.
C8_ErrorSkipsUnlessSwallowed ==
    \A p \in 1..Len(Log) : \A q \in (p + 1)..Len(Log) :
        (IsErrReturn(p) /\ IsStart(q)) => \E r \in (p + 1)..(q - 1) : Reopens(r)

C8_Witness ==
    /\ Returned
    /\ NumHandlers = 3
    /\ outcome.err # NoError
    /\ \E p \in 1..Len(Log) :
          /\ IsErrReturn(p) /\ Log[p].i = 1
          /\ \E r \in (p + 1)..Len(Log) : Log[r].e = "resume" /\ Log[r].i = 0
          /\ \E r \in (p + 1)..Len(Log) : IsErrReturn(r) /\ Log[r].i = 0
    /\ Starts = <<0, 1>>

\* C9: when the pipeline returns an error ServeHTTP writes one error response,
\* with the status and the message of an HTTPError and with status 500 and the
\* text of any other error; when the pipeline returns nil it writes nothing.
C9_ErrorWrittenOnce ==
    /\ outcome.pc # "done" => response = <<>>
    /\ outcome.pc = "done" =>
          IF outcome.err = NoError
          THEN response = <<>>
          ELSE /\ Len(response) = 1
               /\ response[1].body = Append(outcome.err.text, "\n")
               /\ response[1].status = IF outcome.err.http THEN outcome.err.status ELSE 500

C9_Witness ==
    /\ outcome.pc = "done"
    /\ outcome.err = HTTPError(404, <<"Not Found">>)
    /\ response = <<[status |-> 404, body |-> <<"Not Found", "\n">>]>>

----------------------------------------------------------------------------
(* The not-found handlers, read off the calls of Use and NotFound.         *)

\* the handlers given to Use so far, in the order of registration
UsedHandlers ==
    LET F[k \in 0..Len(calls)] ==
            IF k = 0 THEN <<>>
            ELSE IF calls[k].op = "Use" THEN F[k - 1] \o calls[k].hs
            ELSE F[k - 1]
    IN  F[Len(calls)]

NotFoundCalls == {k \in 1..Len(calls) : calls[k].op = "NotFound"}

\* the handlers of the most recent call of NotFound, the default ones before it
LastNotFound ==
    IF NotFoundCalls = {}
    THEN <<"MethodNotAllowedHandler", "NotFoundHandler">>
    ELSE calls[CHOOSE k \in NotFoundCalls : \A j \in NotFoundCalls : j <= k].hs

\* C10: after any sequence of Use and NotFound calls the handlers of a request
\* that matches no route are the handlers given to Use, in registration
\* order, followed by those of the most recent NotFound call (initially
\* MethodNotAllowedHandler and NotFoundHandler).
C10_NotFoundHandlers ==
    /\ notFoundHandlers = UsedHandlers \o LastNotFound
    /\ (found.called /\ Matching = {}) => found.handlers = UsedHandlers \o LastNotFound

C10_Witness ==
    /\ found.called
    /\ Matching = {}
    /\ routes # <<>>
    /\ Len(calls) = 3
    /\ calls[1].op = "Use" /\ calls[1].hs = <<"m1">>
    /\ calls[2].op = "NotFound" /\ calls[2].hs = <<"n1">>
    /\ calls[3].op = "Use" /\ calls[3].hs = <<"m2", "m3">>
    /\ found.handlers = <<"m1", "m2", "m3", "n1">>

----------------------------------------------------------------------------
(* Requests served by ServeHTTP, read off the request and the response.    *)

\* the Add calls (by position) under a method whose pattern matches a path
MatchingFor(method, path) ==
    {i \in 1..Len(added) :
        added[i].method = method /\ PatternMatch(added[i].key, path).ok}

\* the methods that have a route matching the path of the request
AllowedByRoutes == {m \in UsedMethods : MatchingFor(m, request.path) # {}}

\* the methods of the model in ascending string order
Ascending == <<"GET", "OPTIONS", "POST">>
Before(a, b) ==
    \E k, l \in 1..Len(Ascending) : k < l /\ Ascending[k] = a /\ Ascending[l] = b

\* the status the client sees: that of the first write, 200 without one
Status == IF response = <<>> THEN 200 ELSE response[1].status

\* C11: whenever the Allow header is set its value lists exactly the methods
\* that have a route matching the request path, plus OPTIONS, each once, in
\* ascending order, joined by ", ".
C11_AllowHeaderValue ==
    header # <<>> =>
        LET S == AllowedByRoutes \cup {"OPTIONS"}
            names == {k \in 1..Len(header) : k % 2 = 1}
        IN  /\ Len(header) = 2 * Cardinality(S) - 1
            /\ {header[k] : k \in names} = S
            /\ \A k \in 1..Len(header) : k % 2 = 0 => header[k] = ", "
            /\ \A k, l \in names : k < l => Before(header[k], header[l])

C11_Witness ==
    /\ outcome.pc = "done"
    /\ request.method = "OPTIONS"
    /\ AllowedByRoutes = {"GET", "POST"}
    /\ header = <<"GET", ", ", "OPTIONS", ", ", "POST">>

\* the lookup of the request found no route under the request's method
NoRouteFound == found.called /\ MatchingFor(request.method, found.path) = {}

\* C12: for a request whose method has no matching route, with the default
\* not-found chain: when some store matches the path the status is 405 (200
\* for an OPTIONS request), the pipeline is aborted and NotFoundHandler does
\* not run; when no store matches, MethodNotAllowedHandler changes nothing
\* and the response is 404.
C12_NotAllowedOrNotFound ==
    (outcome.pc = "done" /\ NoRouteFound) =>
        IF AllowedByRoutes # {}
        THEN /\ Status = IF request.method = "OPTIONS" THEN 200 ELSE 405
             /\ c.index >= NumHandlers
             /\ Starts = <<0>>
             /\ outcome.err = NoError
        ELSE /\ header = <<>>
             /\ Starts = <<0, 1>>
             /\ response = <<[status |-> 404, body |-> <<"Not Found", "\n">>]>>

C12_Witness ==
    /\ outcome.pc = "done"
    /\ NoRouteFound
    /\ request.method = "OPTIONS"
    /\ AllowedByRoutes = {"GET"}
    /\ response = <<>>
    /\ header = <<"GET", ", ", "OPTIONS">>

\* a path without its trailing slashes, the first character kept
RECURSIVE Strip(_)
Strip(path) ==
    IF Len(path) > 1 /\ path[Len(path)] = "/"
    THEN Strip(SubSeq(path, 1, Len(path) - 1))
    ELSE path

\* C13: with IgnoreTrailingSlash the path looked up is the request path
\* without its trailing slashes, its first character kept; it ends in "/"
\* only when its length is 1, and normalising it again changes nothing;
\* without IgnoreTrailingSlash the request path is looked up unchanged.
C13_NormalizedPath ==
    found.called =>
        IF ignoreTrailingSlash
        THEN /\ found.path = Strip(request.path)
             /\ (found.path # <<>> /\ found.path[Len(found.path)] = "/") => Len(found.path) = 1
             /\ normalizeRequestPath(TRUE, found.path) = found.path
        ELSE found.path = request.path

C13_Witness ==
    /\ found.called
    /\ ignoreTrailingSlash
    /\ request.path = <<"/", "a", "/", "/">>
    /\ found.path = <<"/", "a">>

----------------------------------------------------------------------------
(* C14 *)

GroupCalled == Len(groups') = Len(groups) + 1
GroupCall == calls'[Len(calls')]
GroupMade == groups'[Len(groups')]

\* C14, as stated: the group made by parent.Group(suffix, extra...) has the
\* prefix of the parent followed by the suffix, and the handlers of the parent
\* followed by the extra handlers.
C14_GroupAppendsHandlers ==
    [][GroupCalled =>
          /\ GroupMade.prefix = GroupPrefix(GroupCall.g) \o GroupCall.path
          /\ GroupMade.handlers = GroupHandlers(GroupCall.g) \o GroupCall.hs]_vars

\* C14, amended: the group made by parent.Group(suffix, extra...) has the
\* prefix of the parent followed by the suffix; its handlers are the extra
\* handlers alone when some are given, and those of the parent when none is.
C14_GroupReplacesHandlers ==
    [][GroupCalled =>
          /\ GroupMade.prefix = GroupPrefix(GroupCall.g) \o GroupCall.path
          /\ GroupMade.handlers = IF GroupCall.hs = <<>>
                                  THEN GroupHandlers(GroupCall.g)
                                  ELSE GroupCall.hs]_vars

\* a group was just made with extra handlers from a parent that has handlers
C14_Witness ==
    /\ Len(calls) > 0
    /\ calls[Len(calls)].op = "Group"
    /\ calls[Len(calls)].hs # <<>>
    /\ GroupHandlers(calls[Len(calls)].g) # <<>>
    /\ groups[Len(groups)].handlers = calls[Len(calls)].hs
    /\ groups[Len(groups)].prefix # <<>>

----------------------------------------------------------------------------
(* C15 *)

ToCalled == Len(routes') > Len(routes)
ToCall == calls'[Len(calls')]
NewAdds == (Len(added) + 1)..Len(added')

\* a path the stored pattern matches: every parameter token takes the value 1
Instance(key) == [k \in 1..Len(key) |-> IF IsMarker(key[k]) THEN "1" ELSE key[k]]

\* C15: the handler list stored for a route registered through a group is the
\* handlers the group has at registration, in order, followed by the handlers
\* of the route, and the pattern stored is the prefix of the group followed by
\* the path, a trailing asterisk replaced by <:.*>; a request the pattern
\* matches, in a store that held no route before, finds exactly that list.
C15_StoredHandlersAndPattern ==
    [][ToCalled =>
          \A i \in NewAdds :
              LET e == added'[i]
                  hh == GroupHandlers(ToCall.g) \o ToCall.hs
                  full == GroupPrefix(ToCall.g) \o ToCall.path
                  key == IF full[Len(full)] = "*"
                         THEN SubSeq(full, 1, Len(full) - 1) \o <<"<:.*>">>
                         ELSE full
              IN  /\ e.key = key
                  /\ e.data = Data(hh)
                  /\ stores[e.method] = NoStore =>
                        find(stores', <<>>, e.method, Instance(key),
                             MakeValues(maxParams')).handlers = hh]_vars

\* a route with a trailing asterisk was just registered through a group that
\* has a prefix and handlers other than those of the router
C15_Witness ==
    /\ Len(calls) > 0
    /\ calls[Len(calls)].op = "To"
    /\ calls[Len(calls)].g > 0
    /\ GroupPrefix(calls[Len(calls)].g) # <<>>
    /\ GroupHandlers(calls[Len(calls)].g) # <<>>
    /\ GroupHandlers(calls[Len(calls)].g) # handlers
    /\ calls[Len(calls)].path = <<"/", "*">>
    /\ added[Len(added)].key = GroupPrefix(calls[Len(calls)].g) \o <<"/", "<:.*>">>
    /\ added[Len(added)].data =
          Data(GroupHandlers(calls[Len(calls)].g) \o calls[Len(calls)].hs)

----------------------------------------------------------------------------
(* C16 *)

StoreCount(ss, method) == IF ss[method] = NoStore THEN 0 ELSE ss[method].count
MethodsOf(call) == {call.methods[i] : i \in 1..Len(call.methods)}
LastCall == calls'[Len(calls')]
Called(op) == Len(calls') = Len(calls) + 1 /\ LastCall.op = op
SubRoutes(k) == {routeObjs[k].routes[i] : i \in 1..Len(routeObjs[k].routes)}

\* To adds the route once to the store of each method listed and to no other
ToAddsOncePerMethod ==
    Called("To") =>
        /\ Len(added') = Len(added) + Len(LastCall.methods)
        /\ \A i \in 1..Len(LastCall.methods) :
              added'[Len(added) + i].method = LastCall.methods[i]
        /\ \A m \in UsedMethods :
              /\ m \in MethodsOf(LastCall) => StoreCount(stores', m) = StoreCount(stores, m) + 1
              /\ m \notin MethodsOf(LastCall) => stores'[m] = stores[m]

\* Tag on a route of several methods reaches every one of its sub-routes
TagFansOut ==
    Called("Tag") =>
        \A j \in SubRoutes(LastCall.route) :
            routeObjs'[j].tags = Append(routeObjs[j].tags, LastCall.value)

\* C16, as stated: To with k methods adds the route once to each of the k
\* stores and to no other, and Name(n) or Tag(v) on the route it returns is
\* applied to every sub-route.
C16_NameAndTagFanOut ==
    [][/\ ToAddsOncePerMethod
       /\ TagFansOut
       /\ Called("Name") =>
             \A j \in SubRoutes(LastCall.route) : routeObjs'[j].name = LastCall.value]_vars

\* C16, amended: To with k methods adds the route once to each of the k stores
\* and to no other, and Tag(v) on the route it returns is applied to every
\* sub-route; Name(n) names the returned route alone, which is the one
\* registered under n, and leaves the name of every sub-route as it was.
C16_TagFansOutNameDoesNot ==
    [][/\ ToAddsOncePerMethod
       /\ TagFansOut
       /\ Called("Name") =>
             /\ routeObjs'[LastCall.route].name = LastCall.value
             /\ namedRoutes'[LastCall.value] = LastCall.route
             /\ \A j \in 1..Len(routeObjs) :
                   j # LastCall.route => routeObjs'[j] = routeObjs[j]]_vars

\* a route of two methods was tagged and then named: both sub-routes carry
\* the tag, neither carries the name
C16_Witness ==
    /\ Len(calls) > 1
    /\ calls[Len(calls)].op = "Name"
    /\ LET k == calls[Len(calls)].route
       IN  /\ Len(routeObjs[k].routes) = 2
           /\ routeObjs[k].name = calls[Len(calls)].value
           /\ \A j \in SubRoutes(k) :
                 /\ routeObjs[j].name = ""
                 /\ routeObjs[j].tags = <<"t1">>
                 /\ routeObjs[j].listed > 0
           /\ StoreCount(stores, "GET") = 1
           /\ StoreCount(stores, "POST") = 1
           /\ stores["OPTIONS"] = NoStore

----------------------------------------------------------------------------
(* C17 *)

\* the template with the token of each name replaced by the encoded value
\* that follows the name, the arguments read as pairs
RECURSIVE Substituted(_, _)
Substituted(s, pairs) ==
    IF Len(pairs) < 2 THEN s
    ELSE Substituted(Replace(s, Bracket(pairs[1]), QueryEscape(pairs[2])),
                     SubSeq(pairs, 3, Len(pairs)))

URLCalled == Len(calls) > 0 /\ calls[Len(calls)].op = "URL" /\ calls[Len(calls)].route # 0

\* C17, as stated: for an argument list of even length, URL returns the
\* template with each token named by an argument in a name position replaced
\* by the encoded value that follows it; the arguments in value positions name
\* nothing, and every other token stays.
C17_OnlyNamePositionsSubstituted ==
    (URLCalled /\ Len(calls[Len(calls)].pairs) % 2 = 0) =>
        calls[Len(calls)].url =
            Substituted(routeObjs[calls[Len(calls)].route].template, calls[Len(calls)].pairs)

----------------------------------------------------------------------------
(* C18 *)

SetParamCalled ==
    /\ Len(calls') = Len(calls) + 1
    /\ calls'[Len(calls')].op = "SetParam"

\* C18, as stated: after SetParam(name, value) on a Context in any state, one
\* prepared by ServeHTTP included, Param(name) is value and Param of every
\* other name is what it was.
C18_SetParamThenParam ==
    [][SetParamCalled =>
          /\ Param(c', calls'[Len(calls')].name) = calls'[Len(calls')].value
          /\ \A other \in ParamNames \ {calls'[Len(calls')].name} :
                Param(c', other) = Param(c, other)]_vars

----------------------------------------------------------------------------
(* C19 *)

RecoveryFirst == NumHandlers > 0 /\ c.handlers[1] = Recovery

\* a handler after Recovery returns an error or panics
IsFailure(p) ==
    \/ IsErrReturn(p) /\ Log[p].i > 0
    \/ Log[p].e = "panic"

Failures == {p \in 1..Len(Log) : IsFailure(p)}
FirstFailure == CHOOSE p \in Failures : \A q \in Failures : p <= q

StatusOf(err) == IF err.http THEN err.status ELSE 500

\* an error comes back to Recovery from its call of Next
ReachesRecovery(p) == Log[p].e = "resume" /\ Log[p].i = 0 /\ Log[p].err # NoError

\* every handler after Recovery that calls Next returns what Next returned
PassesOn ==
    \A k \in 2..NumHandlers :
        c.handlers[k].ops = <<"next">> => c.handlers[k].ret = "last"

NilStatusAndStop(p) ==
    /\ outcome.err = NoError
    /\ Status = StatusOf(Log[p].err)
    /\ \A q \in (p + 1)..Len(Log) : ~(IsStart(q) /\ Log[q].i > Log[p].i)

----------------------------------------------------------------------------
(* C20 *)

Requests == 1..MaxRequests

\* C20: in every interleaving of concurrent calls of ServeHTTP, between its
\* Get and its Put a call holds a Context that no other call in flight holds
\* and that is not in the pool, and the Request, the handlers, the index and
\* the parameter names and values of that Context are those this call set.
C20_ContextOwnedByOneRequest ==
    /\ \A r1, r2 \in Requests :
          (r1 # r2 /\ InFlight(r1) /\ InFlight(r2)) => reqs[r1].ctx # reqs[r2].ctx
    /\ \A r \in Requests :
          InFlight(r) =>
              /\ reqs[r].ctx \in 1..Len(contexts)
              /\ reqs[r].ctx \notin pool
    /\ \A r \in Requests :
          reqs[r].pc \in {"inited", "running", "returned"} =>
              contexts[reqs[r].ctx].request = r
    /\ \A r \in Requests :
          reqs[r].pc \in {"running", "returned"} =>
              /\ contexts[reqs[r].ctx].handlers = reqs[r].handlers
              /\ contexts[reqs[r].ctx].pnames = reqs[r].pnames
              /\ contexts[reqs[r].ctx].pvalues = reqs[r].pvalues
              /\ contexts[reqs[r].ctx].index = reqs[r].index

\* two calls run their handlers at the same time, on different routes
C20_Witness ==
    /\ reqs[1].pc = "running"
    /\ reqs[2].pc = "running"
    /\ reqs[1].ctx # reqs[2].ctx
    /\ reqs[1].index = 0
    /\ reqs[2].index = 0
    /\ contexts[reqs[1].ctx].handlers = <<"h1">>
    /\ contexts[reqs[2].ctx].handlers = <<"h2">>
    /\ contexts[reqs[2].ctx].pnames = <<"id">>

----------------------------------------------------------------------------
(* C21 *)

\* the state of the router that registration builds
RouterState == <<stores, routes, namedRoutes, maxParams, handlers,
                 notFoundHandlers, groups>>

\* a step of dispatch: any step that registers no route
DispatchStep == Len(routes') = Len(routes)

\* C21: serving requests is read-only on the router: every step of ServeHTTP
\* (Get, init, lookup, the handlers with the method-not-allowed probe, Put)
\* and every call of Router.Find leaves the stores, the route list, the named
\* routes, maxParams, the group handlers and notFoundHandlers unchanged, in
\* every interleaving of concurrent requests.
C21_DispatchIsReadOnly == [][DispatchStep => UNCHANGED RouterState]_vars

\* one request was answered by the method-not-allowed probe while another
\* runs its handler, and Router.Find was called meanwhile
C21_Witness ==
    /\ Len(routes) = MaxAdds
    /\ found.called
    /\ reqs[1].pc \in {"returned", "done"}
    /\ reqs[1].handlers = <<"MethodNotAllowedHandler", "NotFoundHandler">>
    /\ reqs[1].index >= 0
    /\ reqs[2].pc = "running"
    /\ reqs[2].index = 0
    /\ maxParams = 1

----------------------------------------------------------------------------
(* C22 *)

\* the largest parameter count Add returned so far
LargestParamCount ==
    LET counts == {added[i].pn : i \in 1..Len(added)} \cup {0}
    IN  CHOOSE n \in counts : \A m \in counts : m <= n

\* the lookup of request r needed an index beyond the buffer of its Context
LookupPastBuffer(r) == reqs[r].pc = "panicked" /\ reqs[r].index = -1

\* C22: after any sequence of registrations and requests, maxParams is the
\* largest parameter count Add returned, the Context a request takes from the
\* pool has a pvalues buffer of length maxParams, and no lookup needs an index
\* beyond the buffer.
C22_BufferOfLengthMaxParams ==
    /\ maxParams = LargestParamCount
    /\ \A r \in Requests :
          /\ InFlight(r) => reqs[r].buffer = maxParams
          /\ ~LookupPastBuffer(r)

----------------------------------------------------------------------------
(* C23 *)

\* request r is about to run its first handler
BeforeFirstHandler(r) == reqs[r].pc = "running" /\ reqs[r].index = -1

\* request r runs on a Context that an earlier request has held
Reuses(r) ==
    /\ InFlight(r)
    /\ \E q \in Requests : q # r /\ reqs[q].pc = "done" /\ reqs[q].ctx = reqs[r].ctx

\* C23: when a pooled Context is reused, before the first handler of the new
\* request runs its index is -1, its data map is empty (Get gives nil for
\* every key), its writer is the default one, and its handlers and pnames are
\* those of the lookup of the new request.
C23_ReusedContextIsReset ==
    \A r \in Requests :
        (BeforeFirstHandler(r) /\ Reuses(r)) =>
            LET cx == contexts[reqs[r].ctx]
                f == find(stores, notFoundHandlers, "GET",
                          normalizeRequestPath(ignoreTrailingSlash, reqs[r].path),
                          MakeValues(maxParams))
            IN  /\ cx.index = -1
                /\ cx.data = {}
                /\ ContextGet(cx, "k") = "nil"
                /\ cx.writer = "default"
                /\ cx.handlers = f.handlers
                /\ cx.pnames = f.pnames

\* the second request is about to run on the Context in which a handler of
\* the first one stored data, set a parameter and replaced the writer
C23_Witness ==
    /\ BeforeFirstHandler(2)
    /\ Reuses(2)
    /\ reqs[1].pnames = <<"x">>
    /\ reqs[1].path = <<"/", "a">>
    /\ reqs[2].path = <<"/", "1">>
    /\ contexts[reqs[2].ctx].pnames = <<"id">>

----------------------------------------------------------------------------
(* C24 *)

\* ServeHTTP of request r has been left
Exited(r) == reqs[r].pc \in {"done", "panicked"}

\* request r ended by a panic of one of its handlers
HandlerPanicked(r) == reqs[r].pc = "panicked" /\ reqs[r].index >= 0

----------------------------------------------------------------------------
(* C28 *)

\* the Context of request r had it been made for this request: what the
\* lookup gives with a buffer no request has used
FreshLookup(r) ==
    find(stores, notFoundHandlers, "GET",
         normalizeRequestPath(ignoreTrailingSlash, reqs[r].path),
         MakeValues(maxParams))

\* the names a handler may ask for: those of the routes and those set by
\* handlers of earlier requests
AskedNames == {"id", "x", "k"}

----------------------------------------------------------------------------
(* C25 *)

\* the children of node n: the static ones and the parameter ones
Kids(nodes, n) ==
    ({nodes[n].children[ch] : ch \in Chars} \ {0})
        \cup {nodes[n].pchildren[i] : i \in 1..Len(nodes[n].pchildren)}

\* the order a node counts with: its own when it holds data, else the sentinel
OwnOrder(nd) == IF nd.data = Nil THEN MaxOrder ELSE nd.order

Least(S) == CHOOSE x \in S : \A y \in S : x <= y

RECURSIVE SubtreeOrder(_, _)
\* the least order over node n and all its descendants
SubtreeOrder(nodes, n) ==
    Least({OwnOrder(nodes[n])} \cup {SubtreeOrder(nodes, k) : k \in Kids(nodes, n)})

\* min(order, min children.minOrder)
LocalMinOrder(nodes, n) ==
    Least({OwnOrder(nodes[n])} \cup {nodes[k].minOrder : k \in Kids(nodes, n)})

MinOrderRight(nodes, n) ==
    /\ nodes[n].minOrder = SubtreeOrder(nodes, n)
    /\ nodes[n].minOrder = LocalMinOrder(nodes, n)

\* C25: after any sequence of Add calls, the minOrder of every node of a
\* store is the least order over the node and its descendants, which is
\* min(order, min of the children's minOrder), a node without data counting
\* with the sentinel order.
C25_MinOrderOfEveryNode ==
    \A m \in DOMAIN stores :
        \A n \in 1..Len(stores[m].nodes) : MinOrderRight(stores[m].nodes, n)

\* C25 as the code has it: this holds of every node but the root, whose
\* minOrder is 0 from newStore on, below the order of every entry.
C25_MinOrderBelowTheRoot ==
    \A m \in DOMAIN stores :
        LET nodes == stores[m].nodes
        IN  /\ \A n \in 2..Len(nodes) : MinOrderRight(nodes, n)
            /\ Len(nodes) >= 1 =>
                  /\ nodes[1].minOrder = 0
                  /\ SubtreeOrder(nodes, 1) >= 1

\* a node made without data by the first Add holds the data of the second:
\* its order is 2 and its minOrder stays 1, the order of the entry below it
C25_Witness ==
    \E n \in 2..Len(stores["GET"].nodes) :
        LET nd == stores["GET"].nodes[n]
        IN  /\ nd.data # Nil
            /\ nd.order = 2
            /\ nd.minOrder = 1
            /\ Kids(stores["GET"].nodes, n) # {}

----------------------------------------------------------------------------
(* C26 *)

\* C26: within a request the handlers are invoked in strictly increasing
\* index order, so each of them at most once, whatever they do: call Next
\* several times, call Next after Abort or after a call of Next that returned
\* an error, call Abort after the handlers after them have run.
C26_InvocationsStrictlyIncrease ==
    \A p, q \in 1..Len(Starts) : p < q => Starts[p] < Starts[q]

\* the first handler called Next again after its first call returned the
\* error of the second handler; the third one ran then, called Next and Abort
C26_Witness ==
    /\ outcome.pc = "returned"
    /\ NumHandlers = 3
    /\ c.handlers[1] = Handler(<<"next", "next">>, "last")
    /\ c.handlers[2] = Handler(<<>>, "err")
    /\ c.handlers[3] = Handler(<<"next", "abort">>, "nil")
    /\ Starts = <<0, 1, 2>>

----------------------------------------------------------------------------
(* C27 *)

\* the status and the Allow header a request of method and path gets from
\* the router as it is
AnswerOf(method, path) ==
    LET key == normalizeRequestPath(ignoreTrailingSlash, path)
        r == find(stores, notFoundHandlers, method, key, MakeValues(maxParams))
        methods == findAllowedMethods(stores, maxParams, path)
    IN  IF r.handlers # notFoundHandlers
        THEN [status |-> 200, header |-> <<>>]
        ELSE IF methods # {}
        THEN [status |-> IF method = "OPTIONS" THEN 200 ELSE StatusMethodNotAllowed,
              header |-> AllowHeader(methods)]
        ELSE [status |-> StatusNotFound, header |-> <<>>]

\* the answer the request of the model got
Answer == [status |-> Status, header |-> header]

\* the request got the answer computed for its method and path
AnswerIsAnswerOf ==
    outcome.pc = "done" => Answer = AnswerOf(request.method, request.path)

\* C27: with IgnoreTrailingSlash, a request for a path followed by trailing
\* slashes gets the status and the Allow header of the request of the same
\* method for the path without them, in the 405 case too.
C27_TrailingSlashesSameAnswer ==
    (outcome.pc = "done" /\ ignoreTrailingSlash) =>
        Answer = AnswerOf(request.method, Strip(request.path))

----------------------------------------------------------------------------
(* C29 *)

\* the calls of Name with the name n, by their place in the calls
NameCalls(n) ==
    {p \in 1..Len(calls) : calls[p].op = "Name" /\ calls[p].value = n}

\* the route on which Name(n) was called most recently, 0 (nil) without one
LastNamed(n) ==
    IF NameCalls(n) = {} THEN 0
    ELSE calls[CHOOSE p \in NameCalls(n) : \A q \in NameCalls(n) : q <= p].route

\* Router.Route
RouterRoute(n) == namedRoutes[n]

\* the calls of Name on the route k
NamesOf(k) ==
    {p \in 1..Len(calls) : calls[p].op = "Name" /\ calls[p].route = k}

\* the name the route k was given last
LastNameOf(k) ==
    calls[CHOOSE p \in NamesOf(k) : \A q \in NamesOf(k) : q <= p].value

\* C29: after any sequence of Name calls, Router.Route(n) is the route on
\* which Name(n) was called most recently, and every entry n -> r of the
\* named routes has r.name = n: a route that was renamed is not found under
\* its old name.
C29_NamedRoutesAgreeWithNames ==
    \A n \in RouteNames :
        /\ RouterRoute(n) = LastNamed(n)
        /\ RouterRoute(n) # 0 => routeObjs[RouterRoute(n)].name = n

\* C29 as the code has it: Router.Route(n) is the route on which Name(n) was
\* called most recently, and the name of a route is the one it was given
\* last; Name removes no entry, so a route renamed from n is still found
\* under n until Name(n) is called on another route.
C29_NamedRoutesKeepOldNames ==
    /\ \A n \in RouteNames : RouterRoute(n) = LastNamed(n)
    /\ \A k \in 1..Len(routeObjs) :
          IF NamesOf(k) = {} THEN routeObjs[k].name = ""
          ELSE routeObjs[k].name = LastNameOf(k)

\* a route was named n1 and then n2: it is found under both names
C29_Witness ==
    \E k \in 1..Len(routeObjs) :
        /\ RouterRoute("n1") = k
        /\ RouterRoute("n2") = k
        /\ routeObjs[k].name = "n2"

----------------------------------------------------------------------------
(* C30 *)

\* what registration has stored: the stores with their handler lists, the
\* entries added, the routes
StoredRoutes == <<stores, added, routes, routeObjs>>

====
